---- MODULE Spec2Model ----
(***************************************************************************)
(* Free-lunch eligibility backend: eligibility check, unclaimed backfill,  *)
(* period range resolution and dashboard performance summary.              *)
(*                                                                         *)
(* Dates are JavaScript Date objects in UTC: a day count since 1970-01-01  *)
(* and the milliseconds within that day, or the Invalid Date.  The server  *)
(* time zone is taken to be UTC, so getFullYear/getMonth agree with their  *)
(* UTC counterparts.                                                       *)
(***************************************************************************)
EXTENDS Integers, Sequences, FiniteSets, TLC

VARIABLES now, students, schedules, programs, mealRecords, response, admins, requests

vars == <<now, students, schedules, programs, mealRecords, response, admins, requests>>

(***************************************************************************)
(* JavaScript Number and Date                                              *)
(***************************************************************************)

\* The Number NaN, as produced by getFullYear() / getTime() of an Invalid Date.
NaN == -999999

isNaN(x) == x = NaN

NumAdd(a, b) == IF isNaN(a) \/ isNaN(b) THEN NaN ELSE a + b

\* setUTCHours(23, 59, 59, 999): the last millisecond of a day.
EndOfDayMs == 86399999

InvalidDate == [valid |-> FALSE, day |-> 0, ms |-> 0]

MkDate(d, t) == [valid |-> TRUE, day |-> d, ms |-> t]

\* Days since 1970-01-01 of the civil date y-m-d (m in 1..12), proleptic Gregorian.
DaysFromCivil(y, m, d) ==
    LET yy  == IF m <= 2 THEN y - 1 ELSE y
        era == yy \div 400
        yoe == yy - era * 400
        mp  == IF m > 2 THEN m - 3 ELSE m + 9
        doy == (153 * mp + 2) \div 5 + d - 1
        doe == yoe * 365 + yoe \div 4 - yoe \div 100 + doy
    IN  era * 146097 + doe - 719468

\* The civil date [y, m, d] of a day count since 1970-01-01, computed in
\* stages: era, day of era, year of era, day of year, shifted month.
CivilOfMonth(y, m, d) == [y |-> IF m <= 2 THEN y + 1 ELSE y, m |-> m, d |-> d]

CivilOfMp(y, doy, mp) ==
    CivilOfMonth(y, IF mp < 10 THEN mp + 3 ELSE mp - 9, doy - (153 * mp + 2) \div 5 + 1)

CivilOfDoy(y, doy) == CivilOfMp(y, doy, (5 * doy + 2) \div 153)

CivilOfYoe(era, doe, yoe) ==
    CivilOfDoy(yoe + era * 400, doe - (365 * yoe + yoe \div 4 - yoe \div 100))

CivilOfDoe(era, doe) ==
    CivilOfYoe(era, doe, (doe - doe \div 1460 + doe \div 36524 - doe \div 146096) \div 365)

CivilOfEra(era, zz) == CivilOfDoe(era, zz - era * 146097)

CivilFromDays(z) == CivilOfEra((z + 719468) \div 146097, z + 719468)

\* Date.UTC(year, monthIndex, day, ...): month and day overflow are carried;
\* a NaN argument gives NaN, which new Date() turns into the Invalid Date.
DateUTC(year, monthIndex, day, ms) ==
    IF isNaN(year) \/ isNaN(monthIndex) \/ isNaN(day)
    THEN InvalidDate
    ELSE MkDate(DaysFromCivil(year + monthIndex \div 12, (monthIndex % 12) + 1, 1) + day - 1, ms)

getUTCFullYear(date) == IF date.valid THEN CivilFromDays(date.day).y ELSE NaN

\* Month index 0..11.
getUTCMonth(date) == IF date.valid THEN CivilFromDays(date.day).m - 1 ELSE NaN

getUTCDate(date) == IF date.valid THEN CivilFromDays(date.day).d ELSE NaN

\* 0 = Sunday .. 6 = Saturday; 1970-01-01 was a Thursday.
getUTCDay(date) == IF date.valid THEN (date.day + 4) % 7 ELSE NaN

\* date.setUTCDate(n): day n of the date's current month, overflow carried.
setUTCDate(date, n) ==
    IF ~date.valid \/ isNaN(n) THEN InvalidDate
    ELSE MkDate(date.day - CivilFromDays(date.day).d + n, date.ms)

\* date.setUTCHours(h, m, s, ms) with the time of day given in milliseconds.
setUTCHours(date, t) == IF date.valid THEN MkDate(date.day, t) ELSE InvalidDate

\* Relational comparison of two Dates by time value (false with NaN).
DateLt(a, b) == a.valid /\ b.valid /\ (a.day < b.day \/ (a.day = b.day /\ a.ms < b.ms))

DateLeq(a, b) == a.valid /\ b.valid /\ (a.day < b.day \/ (a.day = b.day /\ a.ms <= b.ms))

(***************************************************************************)
(* Request values.  A query or body value is a string, modelled by its     *)
(* shape: absent, "YYYY-MM-DD", "YYYY-MM-DDTHH:mm:ss.sssZ", "YYYY-MM", or  *)
(* a word such as "1st", "2nd" or unparseable text.                        *)
(***************************************************************************)
NoValue == [kind |-> "none", y |-> 0, m |-> 0, d |-> 0, ms |-> 0, w |-> ""]

YmdValue(y, m, d) == [kind |-> "ymd", y |-> y, m |-> m, d |-> d, ms |-> 0, w |-> ""]

IsoValue(y, m, d, t) == [kind |-> "iso", y |-> y, m |-> m, d |-> d, ms |-> t, w |-> ""]

YmValue(y, m) == [kind |-> "ym", y |-> y, m |-> m, d |-> 0, ms |-> 0, w |-> ""]

WordValue(w) == [kind |-> "word", y |-> 0, m |-> 0, d |-> 0, ms |-> 0, w |-> w]

\* JavaScript truthiness of a request value: absent and "" are falsy.
Truthy(value) == value.kind # "none" /\ ~(value.kind = "word" /\ value.w = "")

\* Variant of NewDate in which a word parses to the epoch.
NewDate_WordIsEpoch(value) ==
    CASE value.kind = "ymd" -> MkDate(DaysFromCivil(value.y, value.m, value.d), 0)
      [] value.kind = "iso" -> MkDate(DaysFromCivil(value.y, value.m, value.d), value.ms)
      [] value.kind = "ym"  -> MkDate(DaysFromCivil(value.y, value.m, 1), 0)
      [] OTHER              -> MkDate(0, 0)

\* new Date(value): date-only and date-time ISO forms are UTC; "YYYY-MM" is
\* the first of the month; words such as "1st" do not parse.
NewDate(value) ==
    CASE value.kind = "ymd" -> MkDate(DaysFromCivil(value.y, value.m, value.d), 0)
      [] value.kind = "iso" -> MkDate(DaysFromCivil(value.y, value.m, value.d), value.ms)
      [] value.kind = "ym"  -> MkDate(DaysFromCivil(value.y, value.m, 1), 0)
      [] OTHER              -> InvalidDate

\* date.toISOString().split('T')[0]: the "YYYY-MM-DD" string of a Date.
ToISODateString(date) ==
    LET c == CivilFromDays(date.day) IN YmdValue(c.y, c.m, c.d)

\* value.includes('-')
IncludesDash(value) ==
    value.kind \in {"ymd", "iso", "ym"} \/ (value.kind = "word" /\ value.w \in {"ab-cd"})

\* parseInt(value.split('-')[i], 10) for i = 0 (year) and i = 1 (month).
ParseIntPart(value, i) ==
    IF value.kind \in {"ymd", "iso", "ym"}
    THEN (IF i = 0 THEN value.y ELSE value.m)
    ELSE NaN

\* String.prototype.toLowerCase on the period names a request can carry.
toLowerCase(s) ==
    CASE s = "DAILY"     -> "daily"
      [] s = "Weekly"    -> "weekly"
      [] s = "MONTHLY"   -> "monthly"
      [] s = "Semestral" -> "semestral"
      [] s = "Admin@LaVerdad.edu.ph" -> "admin@laverdad.edu.ph"
      [] OTHER           -> s

\* days[] of eligibilityController.js, indexed by getUTCDay() (0 = Sunday).
DayNames == <<"Sunday", "Monday", "Tuesday", "Wednesday", "Thursday", "Friday", "Saturday">>

\* toLocaleDateString('en-US', { weekday: 'long', timeZone: 'UTC' })
WeekdayName(date) == IF date.valid THEN DayNames[getUTCDay(date) + 1] ELSE "Invalid Date"

MonthNames == <<"January", "February", "March", "April", "May", "June", "July",
                "August", "September", "October", "November", "December">>

(***************************************************************************)
(* Period Range Resolver (dashboardController.js, getPeriodRange)          *)
(***************************************************************************)
RangeError(msg) == [startDate |-> InvalidDate, endDate |-> InvalidDate, error |-> msg]

RangeOk(s, e) == [startDate |-> s, endDate |-> e, error |-> "null"]

\* const referenceYear = value ? new Date(value).getFullYear() : now.getFullYear();
referenceYear(value) ==
    IF Truthy(value) THEN getUTCFullYear(NewDate(value)) ELSE getUTCFullYear(now)

\* const academicYearStart = now.getUTCMonth() >= 8 ? referenceYear : referenceYear - 1;
academicYearStart(value) ==
    IF getUTCMonth(now) >= 8 THEN referenceYear(value) ELSE NumAdd(referenceYear(value), -1)

\* Variant: Sunday is not special-cased, so it opens the following week.
diffToMonday_SundayNotSpecial(dayOfWeek) == 1 - dayOfWeek

\* const diffToMonday = (dayOfWeek === 0) ? -6 : 1 - dayOfWeek;
diffToMonday(dayOfWeek) == IF dayOfWeek = 0 THEN -6 ELSE 1 - dayOfWeek

\* The daily branch, given targetDate.
DailyRange(targetDate) ==
    IF ~targetDate.valid
    THEN RangeError("Invalid date format for daily filter. Use YYYY-MM-DD.")
    ELSE RangeOk(setUTCHours(targetDate, 0), setUTCHours(targetDate, EndOfDayMs))

\* endDate of the weekly branch: six days after startDate, at 23:59:59.999.
WeekFrom(startDate) ==
    RangeOk(startDate, setUTCHours(setUTCDate(startDate, getUTCDate(startDate) + 6), EndOfDayMs))

\* The weekly branch, given weekRefDate.
WeeklyRange(weekRefDate) ==
    IF ~weekRefDate.valid
    THEN RangeError("Invalid date for week period. Provide a YYYY-MM-DD date.")
    ELSE WeekFrom(setUTCHours(
                    setUTCDate(weekRefDate,
                               getUTCDate(weekRefDate) + diffToMonday(getUTCDay(weekRefDate))), 0))

\* The monthly branch, given year and month (month index 0..11).
MonthlyRange(year, month) ==
    IF isNaN(year) \/ isNaN(month)
    THEN RangeError("Invalid format for monthly filter. Use YYYY-MM.")
    ELSE RangeOk(DateUTC(year, month, 1, 0), DateUTC(year, month + 1, 0, EndOfDayMs))

\* The semestral branch, given academicYearStart.
SemestralRange(value, ays) ==
    IF value = WordValue("1st")
    THEN RangeOk(DateUTC(ays, 8, 1, 0), DateUTC(NumAdd(ays, 1), 1, 0, EndOfDayMs))
    ELSE IF value = WordValue("2nd")
    THEN RangeOk(DateUTC(NumAdd(ays, 1), 1, 1, 0), DateUTC(NumAdd(ays, 1), 7, 0, EndOfDayMs))
    ELSE RangeError("Invalid semester value. Use '1st' or '2nd'.")

getPeriodRange(periodType, value) ==
    CASE toLowerCase(periodType) = "daily" ->
            DailyRange(IF Truthy(value) THEN NewDate(value) ELSE now)
      [] toLowerCase(periodType) = "weekly" ->
            WeeklyRange(IF Truthy(value) THEN NewDate(value) ELSE now)
      [] toLowerCase(periodType) = "monthly" ->
            IF Truthy(value) /\ IncludesDash(value)
            THEN MonthlyRange(ParseIntPart(value, 0), NumAdd(ParseIntPart(value, 1), -1))
            ELSE MonthlyRange(getUTCFullYear(now), getUTCMonth(now))
      [] toLowerCase(periodType) = "semestral" ->
            SemestralRange(value, academicYearStart(value))
      [] OTHER -> RangeError("Invalid period type specified.")

(***************************************************************************)
(* Performance Summary Aggregator (dashboardController.js)                 *)
(***************************************************************************)
RECURSIVE SumCond(_, _)
\* { $sum: { $cond: [{ $eq: ['$status', status] }, 1, 0] } } over the matched documents.
SumCond(docs, status) ==
    IF docs = <<>> THEN 0
    ELSE (IF Head(docs).status = status THEN 1 ELSE 0) + SumCond(Tail(docs), status)

\* Variant: the end of the range is exclusive ($lt instead of $lte).
MatchStage_ExclusiveEnd(doc, startDate, endDate) ==
    /\ DateLeq(startDate, doc.dateChecked)
    /\ DateLt(doc.dateChecked, endDate)
    /\ doc.status \in {"CLAIMED", "ELIGIBLE_BUT_NOT_CLAIMED"}

\* The $match stage: dateChecked within [startDate, endDate] and a counted status.
\* An Invalid Date bound matches no stored record.
MatchStage(doc, startDate, endDate) ==
    /\ DateLeq(startDate, doc.dateChecked)
    /\ DateLeq(doc.dateChecked, endDate)
    /\ doc.status \in {"CLAIMED", "ELIGIBLE_BUT_NOT_CLAIMED"}

\* The $group stage over the matched documents (no document: all zero).
GroupStage(matched) ==
    IF matched = <<>> THEN [claimed |-> 0, unclaimed |-> 0]
    ELSE [claimed   |-> SumCond(matched, "CLAIMED"),
          unclaimed |-> SumCond(matched, "ELIGIBLE_BUT_NOT_CLAIMED")]

\* allotted = claimed + unclaimed
SummaryOf(group) ==
    [allotted |-> group.claimed + group.unclaimed,
     claimed |-> group.claimed, unclaimed |-> group.unclaimed]

calculateSummaryForSinglePeriod(startDate, endDate) ==
    SummaryOf(GroupStage(SelectSeq(mealRecords, LAMBDA doc: MatchStage(doc, startDate, endDate))))

\* { id, name, ...summary }
BucketOf(label, summary) ==
    [id |-> label.id, name |-> label.name, allotted |-> summary.allotted,
     claimed |-> summary.claimed, unclaimed |-> summary.unclaimed]

Bucket(label, range) ==
    BucketOf(label, calculateSummaryForSinglePeriod(range.startDate, range.endDate))

\* Variant: the day range ends where it starts (no setUTCHours on currentDayEnd).
DayFrom_NoEndOfDay(currentDayStart) == RangeOk(currentDayStart, currentDayStart)

\* One day of the weekly loop: currentDayStart to its 23:59:59.999.
DayFrom(currentDayStart) == RangeOk(currentDayStart, setUTCHours(currentDayStart, EndOfDayMs))

\* The seven day ranges of the weekly loop (i = 0..6).
WeeklyDayRanges(weekRange) ==
    [k \in 1..7 |->
        DayFrom(setUTCDate(weekRange.startDate, getUTCDate(weekRange.startDate) + (k - 1)))]

\* Variant: the first week is not clipped to the start of the month.
effectiveStart_Unclipped(weekRange, monthRange) == weekRange.startDate

\* weekRange.startDate < monthRange.startDate ? monthRange.startDate : weekRange.startDate
effectiveStart(weekRange, monthRange) ==
    IF DateLt(weekRange.startDate, monthRange.startDate)
    THEN monthRange.startDate ELSE weekRange.startDate

\* weekRange.endDate > monthRange.endDate ? monthRange.endDate : weekRange.endDate
effectiveEnd(weekRange, monthRange) ==
    IF DateLt(monthRange.endDate, weekRange.endDate)
    THEN monthRange.endDate ELSE weekRange.endDate

RECURSIVE MonthlyWeekRanges(_, _)
\* One pass of the while loop of the monthly branch: the week's range clipped
\* to the month, then the loop from the day after the week's end.
MonthlyWeekPass(weekRange, monthRange) ==
    <<RangeOk(effectiveStart(weekRange, monthRange), effectiveEnd(weekRange, monthRange))>>
        \o MonthlyWeekRanges(setUTCDate(weekRange.endDate, getUTCDate(weekRange.endDate) + 1),
                             monthRange)

\* while (weekStart <= monthRange.endDate)
MonthlyWeekRanges(weekStart, monthRange) ==
    IF ~DateLeq(weekStart, monthRange.endDate) THEN <<>>
    ELSE MonthlyWeekPass(getPeriodRange("weekly", ToISODateString(weekStart)), monthRange)

\* The months (yr, m) visited by the semester drill-down loops, in order.
MonthsOfYear(yr, startYear, startMonth, endYear, endMonth) ==
    LET mStart == IF yr = startYear THEN startMonth ELSE 0
        mEnd   == IF yr = endYear THEN endMonth ELSE 11
    IN  IF mEnd < mStart THEN <<>>
        ELSE [k \in 1..(mEnd - mStart + 1) |-> [yr |-> yr, m |-> mStart + k - 1]]

RECURSIVE SemesterMonths(_, _, _, _, _)
SemesterMonths(yr, startYear, startMonth, endYear, endMonth) ==
    IF isNaN(yr) \/ isNaN(endYear) \/ yr > endYear THEN <<>>
    ELSE MonthsOfYear(yr, startYear, startMonth, endYear, endMonth)
            \o SemesterMonths(yr + 1, startYear, startMonth, endYear, endMonth)

SemesterMonthRange(ym) ==
    RangeOk(DateUTC(ym.yr, ym.m, 1, 0), DateUTC(ym.yr, ym.m + 1, 0, EndOfDayMs))

WeekId(n) == [kind |-> "week", y |-> 0, m |-> 0, d |-> n, ms |-> 0, w |-> ""]

MonthId(yr, m) == [kind |-> "yr-m", y |-> yr, m |-> m, d |-> 0, ms |-> 0, w |-> ""]

SummaryResponse(code, err, filterPeriod, value, startDate, endDate, data) ==
    [op |-> "getPerformanceSummary", status |-> code, error |-> err,
     filterDetails |-> [filterPeriod |-> filterPeriod, value |-> value,
                        startDate |-> startDate, endDate |-> endDate],
     data |-> data]

SummaryError(err, filterPeriod, value) ==
    SummaryResponse(400, err, filterPeriod, value, InvalidDate, InvalidDate, <<>>)

\* The month ranges of a semester drill-down.
SemesterMonthRanges(months) == [k \in 1..Len(months) |-> SemesterMonthRange(months[k])]

SemesterRanges(semRange) ==
    SemesterMonthRanges(SemesterMonths(getUTCFullYear(semRange.startDate),
                                       getUTCFullYear(semRange.startDate),
                                       getUTCMonth(semRange.startDate),
                                       getUTCFullYear(semRange.endDate),
                                       getUTCMonth(semRange.endDate)))

MonthRanges(monthRange) == MonthlyWeekRanges(monthRange.startDate, monthRange)

\* The ranges of the buckets getPerformanceSummary aggregates, in response order.
SummaryBucketRanges(filterPeriod, value) ==
    CASE toLowerCase(filterPeriod) = "daily"   -> <<getPeriodRange("daily", value)>>
      [] toLowerCase(filterPeriod) = "weekly"  -> WeeklyDayRanges(getPeriodRange("weekly", value))
      [] toLowerCase(filterPeriod) = "monthly" -> MonthRanges(getPeriodRange("monthly", value))
      [] toLowerCase(filterPeriod) = "semestral" ->
            IF Truthy(value)
            THEN SemesterRanges(getPeriodRange("semestral", value))
            ELSE <<getPeriodRange("semestral", WordValue("1st")),
                   getPeriodRange("semestral", WordValue("2nd"))>>
      [] OTHER -> <<>>

\* The id and name of the k-th bucket.
SummaryBucketLabel(filterPeriod, value, k, range) ==
    CASE toLowerCase(filterPeriod) = "daily" ->
            [id |-> ToISODateString(range.startDate), name |-> WeekdayName(range.startDate)]
      [] toLowerCase(filterPeriod) = "weekly" ->
            [id |-> ToISODateString(range.startDate),
             name |-> <<"Monday", "Tuesday", "Wednesday", "Thursday",
                        "Friday", "Saturday", "Sunday">>[k]]
      [] toLowerCase(filterPeriod) = "monthly" -> [id |-> WeekId(k), name |-> "Week"]
      [] toLowerCase(filterPeriod) = "semestral" /\ Truthy(value) ->
            [id |-> MonthId(getUTCFullYear(range.startDate), getUTCMonth(range.startDate) + 1),
             name |-> MonthNames[getUTCMonth(range.startDate) + 1]]
      [] OTHER -> [id |-> WordValue(IF k = 1 THEN "1st" ELSE "2nd"),
                   name |-> IF k = 1 THEN "1st Semester" ELSE "2nd Semester"]

\* summaryData: one bucket per range.
SummaryData(filterPeriod, value, ranges) ==
    [k \in 1..Len(ranges) |->
        Bucket(SummaryBucketLabel(filterPeriod, value, k, ranges[k]), ranges[k])]

\* The response once the period range is resolved; range is the range of
\* filterDetails (no dates for the two-semester overview).
SummaryFor(filterPeriod, value, range) ==
    IF range.error # "null"
    THEN SummaryError(range.error, filterPeriod, value)
    ELSE SummaryResponse(200, "null", filterPeriod, value, range.startDate, range.endDate,
                         SummaryData(filterPeriod, value, SummaryBucketRanges(filterPeriod, value)))

\* The response of GET /dashboard/performance-summary for req.query = {filterPeriod, value};
\* filterPeriod = "" stands for a missing parameter.
getPerformanceSummary(filterPeriod, value) ==
    IF filterPeriod = "" THEN SummaryError("Filter period is required.", filterPeriod, value)
    ELSE IF toLowerCase(filterPeriod) \notin {"daily", "weekly", "monthly", "semestral"}
    THEN SummaryError("Invalid filter period for summary.", filterPeriod, value)
    ELSE IF toLowerCase(filterPeriod) = "semestral" /\ ~Truthy(value)
    THEN SummaryFor(filterPeriod, value, RangeOk(InvalidDate, InvalidDate))
    ELSE SummaryFor(filterPeriod, value, getPeriodRange(toLowerCase(filterPeriod), value))

(***************************************************************************)
(* Program Breakdown Aggregator (dashboardController.js)                   *)
(***************************************************************************)
\* String.prototype.toUpperCase on the program names a request can carry.
toUpperCase(s) ==
    CASE s = "bsis" -> "BSIS"
      [] s = "act"  -> "ACT"
      [] s = "bscs" -> "BSCS"
      [] s = "bsit" -> "BSIT"
      [] OTHER      -> s

\* { $concat: [{ $toString: "$yearLevelAtTimeOfRecord" }, " year"] }
YearLevelName(yearLevel) ==
    <<"0 year", "1 year", "2 year", "3 year", "4 year">>[yearLevel + 1]

\* The group names in ascending (binary string) order, as { $sort: { name: 1 } } orders them.
SortedGroupNames ==
    <<"0 year", "1 year", "2 year", "3 year", "4 year", "ACT", "BSIS", "UNKNOWN">>

\* matchStage of the breakdown; program "" stands for a missing parameter.
BreakdownMatchStage(doc, range, program) ==
    /\ MatchStage(doc, range.startDate, range.endDate)
    /\ (program # "" => doc.programAtTimeOfRecord = toUpperCase(program))

\* groupKey evaluated on a document.
groupKey(doc, program, groupBy) ==
    IF groupBy = "yearLevel" /\ program # ""
    THEN YearLevelName(doc.yearLevelAtTimeOfRecord)
    ELSE doc.programAtTimeOfRecord

\* Variant of the $project stage: allotted carries the claimed count alone.
BreakdownRow_ClaimedOnly(name, group) ==
    [name |-> name, claimed |-> group.claimed, unclaimed |-> group.unclaimed,
     allotted |-> group.claimed]

\* The $project stage of one group.
BreakdownRow(name, group) ==
    [name |-> name, claimed |-> group.claimed, unclaimed |-> group.unclaimed,
     allotted |-> group.claimed + group.unclaimed]

\* The $group stage for one key over the matched documents.
BreakdownGroup(name, matched, program, groupBy) ==
    BreakdownRow(name, GroupStage(SelectSeq(matched,
                                   LAMBDA doc: groupKey(doc, program, groupBy) = name)))

\* One row per group key, in name order.
BreakdownRows(names, matched, program, groupBy) ==
    [k \in 1..Len(names) |-> BreakdownGroup(names[k], matched, program, groupBy)]

\* The aggregation pipeline over the matched documents.
BreakdownPipeline(matched, program, groupBy) ==
    BreakdownRows(SelectSeq(SortedGroupNames,
                            LAMBDA name: \E i \in DOMAIN matched :
                                            groupKey(matched[i], program, groupBy) = name),
                  matched, program, groupBy)

BreakdownResponse(code, err, query, startDate, endDate, data) ==
    [op |-> "getProgramBreakdown", status |-> code, error |-> err,
     filterDetails |-> [filterPeriod |-> query.filterPeriod, value |-> query.value,
                        program |-> query.program, groupBy |-> query.groupBy,
                        startDate |-> startDate, endDate |-> endDate],
     data |-> data]

\* The response once the range is resolved.  toISOString() of an Invalid Date
\* throws a RangeError, which the error middleware answers with status 500.
BreakdownFor(query, range) ==
    IF range.error # "null"
    THEN BreakdownResponse(400, range.error, query, InvalidDate, InvalidDate, <<>>)
    ELSE IF ~range.startDate.valid \/ ~range.endDate.valid
    THEN BreakdownResponse(500, "Invalid time value", query, InvalidDate, InvalidDate, <<>>)
    ELSE BreakdownResponse(200, "null", query, range.startDate, range.endDate,
            BreakdownPipeline(SelectSeq(mealRecords,
                                        LAMBDA doc: BreakdownMatchStage(doc, range, query.program)),
                              query.program, query.groupBy))

\* const effectiveValue = (filterPeriod.toLowerCase() === 'semestral' && !value) ? '1st' : value;
effectiveValue(filterPeriod, value) ==
    IF toLowerCase(filterPeriod) = "semestral" /\ ~Truthy(value) THEN WordValue("1st") ELSE value

\* The response of GET /dashboard/program-breakdown for req.query = query
\* ("" stands for a missing filterPeriod, program or groupBy).
getProgramBreakdown(query) ==
    IF query.filterPeriod = ""
    THEN BreakdownResponse(400, "Filter period is required.", query, InvalidDate, InvalidDate, <<>>)
    ELSE BreakdownFor(query, getPeriodRange(toLowerCase(query.filterPeriod),
                                            effectiveValue(query.filterPeriod, query.value)))

(***************************************************************************)
(* Collections.  students and mealRecords are in insertion order; a        *)
(* student ID number is a string, modelled as its sequence of characters.  *)
(***************************************************************************)
\* student: null of a MealRecord written for an unknown student ID.
Null == "null"

RECURSIVE TrimStart(_)
TrimStart(str) == IF str # <<>> /\ Head(str) = " " THEN TrimStart(Tail(str)) ELSE str

RECURSIVE TrimEnd(_)
TrimEnd(str) ==
    IF str # <<>> /\ str[Len(str)] = " " THEN TrimEnd(SubSeq(str, 1, Len(str) - 1)) ELSE str

\* Variant: only leading blanks are removed.
trim_LeadingOnly(str) == TrimStart(str)

\* String.prototype.trim
trim(str) == TrimEnd(TrimStart(str))

\* A MealRecord document; the schema trims studentIdNumber (trim: true).
Student(id, studentIdNumber, email, program, yearLevel) ==
    [_id |-> id, studentIdNumber |-> studentIdNumber, email |-> email,
     program |-> program, yearLevel |-> yearLevel]

\* Variant of MealRecord that stores no program and year level of the student.
MealRecord_NoSnapshot(student, studentIdNumber, program, yearLevel, dateChecked, status) ==
    [student |-> student, studentIdNumber |-> trim(studentIdNumber),
     programAtTimeOfRecord |-> "UNKNOWN", yearLevelAtTimeOfRecord |-> 0,
     dateChecked |-> dateChecked, status |-> status]

MealRecord(student, studentIdNumber, program, yearLevel, dateChecked, status) ==
    [student |-> student, studentIdNumber |-> trim(studentIdNumber),
     programAtTimeOfRecord |-> program, yearLevelAtTimeOfRecord |-> yearLevel,
     dateChecked |-> dateChecked, status |-> status]

\* Student.findOne({ studentIdNumber }): the matching documents, in collection order.
FindStudents(studentIdNumber) ==
    SelectSeq(students, LAMBDA st: st.studentIdNumber = studentIdNumber)

\* Schedule.findOne({ program, yearLevel, dayOfWeek }): the rows of that triple.
FindSchedule(program, yearLevel, dayOfWeek) ==
    {row \in schedules : /\ row.program = program
                         /\ row.yearLevel = yearLevel
                         /\ row.dayOfWeek = dayOfWeek}

\* days[new Date().getUTCDay()]
getCurrentDayOfWeek == DayNames[getUTCDay(now) + 1]

(***************************************************************************)
(* Eligibility Evaluator (eligibilityController.js, checkStudentEligibility)*)
(***************************************************************************)
CheckResponse(param, code, success, eligibilityStatus, reason, day) ==
    [op |-> "checkStudentEligibility", studentIdNumber |-> param, status |-> code,
     success |-> success, eligibilityStatus |-> eligibilityStatus,
     reason |-> reason, day |-> day]

\* Variant: a cohort without a Schedule row for the day counts as eligible.
IsEligibleToday_MissingRowEligible(rows) ==
    IF rows = {} THEN "true"
    ELSE IF (CHOOSE row \in rows : TRUE).isEligible THEN "true" ELSE "false"

\* scheduleEntry && scheduleEntry.isEligible, as JSON: null when no row exists.
IsEligibleToday(rows) ==
    IF rows = {} THEN "null"
    ELSE IF (CHOOSE row \in rows : TRUE).isEligible THEN "true" ELSE "false"

\* const mealRecordStatus = isEligibleToday ? 'CLAIMED' : 'INELIGIBLE_NOT_SCHEDULED';
MealRecordStatus(isEligibleToday) ==
    IF isEligibleToday = "true" THEN "CLAIMED" ELSE "INELIGIBLE_NOT_SCHEDULED"

checkStudentEligibility(studentIdNumber) ==
    IF studentIdNumber = <<>> \/ trim(studentIdNumber) = <<>>
    THEN /\ response' = CheckResponse(studentIdNumber, 400, FALSE, "none",
                                      "Student ID Number is required.", "")
         /\ UNCHANGED <<admins, requests, now, students, schedules, programs, mealRecords>>
    ELSE LET found == FindStudents(trim(studentIdNumber)) IN
         IF found = <<>>
         THEN /\ mealRecords' = Append(mealRecords,
                    MealRecord(Null, trim(studentIdNumber), "UNKNOWN", 0, now,
                               "INELIGIBLE_STUDENT_NOT_FOUND"))
              /\ response' = CheckResponse(studentIdNumber, 404, FALSE, "none",
                                           "Student ID not found in masterlist.", "")
              /\ UNCHANGED <<admins, requests, now, students, schedules, programs>>
         ELSE LET student         == found[1]
                  currentDay      == getCurrentDayOfWeek
                  isEligibleToday == IsEligibleToday(
                                        FindSchedule(student.program, student.yearLevel, currentDay))
              IN  /\ mealRecords' = Append(mealRecords,
                        MealRecord(student._id, student.studentIdNumber, student.program,
                                   student.yearLevel, now, MealRecordStatus(isEligibleToday)))
                  /\ response' = CheckResponse(studentIdNumber, 200, TRUE, isEligibleToday,
                        IF isEligibleToday = "true" THEN "Eligible for meal."
                        ELSE "Not scheduled for eligibility on", currentDay)
                  /\ UNCHANGED <<admins, requests, now, students, schedules, programs>>

(***************************************************************************)
(* Unclaimed Backfill (recordController.js, generateUnclaimedRecords)      *)
(***************************************************************************)
\* What firebaseAdmin.auth().getUserByEmail(student.email) does: it returns a
\* user with or without a photoURL, or throws auth/user-not-found,
\* auth/invalid-email (the student has no email) or another error.
LookupOutcomes == {"photo", "noPhoto", "auth/user-not-found", "auth/invalid-email",
                   "auth/internal-error"}

\* Variant of catchLookup in which only auth/user-not-found is swallowed.
catchLookup_RethrowsOthers(outcome) ==
    IF outcome \in {"photo", "noPhoto", "auth/user-not-found"} THEN "continue" ELSE "throw"

\* try { ... } catch (error) { ... }: whatever the lookup throws, the handler
\* goes on after the catch block.
catchLookup(outcome) == "continue"

\* The profilePictureUrl after the try block: the photo in high resolution, or
\* the placeholder it was initialised with.
profilePictureUrl(outcome) ==
    IF outcome = "photo" THEN "photoURL=s256-c" ELSE "/person-placeholder.jpg"

PictureCheckResponse(param, code, success, eligibilityStatus, reason, day, picture) ==
    [op |-> "checkStudentEligibility", studentIdNumber |-> param, status |-> code,
     success |-> success, eligibilityStatus |-> eligibilityStatus,
     reason |-> reason, day |-> day, profilePictureUrl |-> picture]

\* checkStudentEligibility of the version that looks the picture up.
checkStudentEligibilityWithPicture(studentIdNumber, outcome) ==
    IF studentIdNumber = <<>> \/ trim(studentIdNumber) = <<>>
    THEN /\ response' = PictureCheckResponse(studentIdNumber, 400, FALSE, "none",
                                             "Student ID Number is required.", "", "none")
         /\ UNCHANGED <<admins, requests, now, students, schedules, programs, mealRecords>>
    ELSE LET found == FindStudents(trim(studentIdNumber)) IN
         IF found = <<>>
         THEN /\ mealRecords' = Append(mealRecords,
                    MealRecord(Null, trim(studentIdNumber), "UNKNOWN", 0, now,
                               "INELIGIBLE_STUDENT_NOT_FOUND"))
              /\ response' = PictureCheckResponse(studentIdNumber, 404, FALSE, "none",
                                "Student ID not found in masterlist.", "", "none")
              /\ UNCHANGED <<admins, requests, now, students, schedules, programs>>
         ELSE IF catchLookup(outcome) = "throw"
         THEN /\ response' = PictureCheckResponse(studentIdNumber, 500, FALSE, "none",
                                                  outcome, "", "none")
              /\ UNCHANGED <<admins, requests, now, students, schedules, programs, mealRecords>>
         ELSE LET student         == found[1]
                  currentDay      == getCurrentDayOfWeek
                  isEligibleToday == IF IsEligibleToday(
                                          FindSchedule(student.program, student.yearLevel,
                                                       currentDay)) = "true"
                                     THEN "true" ELSE "false"
              IN  /\ mealRecords' = Append(mealRecords,
                        MealRecord(student._id, student.studentIdNumber, student.program,
                                   student.yearLevel, now, MealRecordStatus(isEligibleToday)))
                  /\ response' = PictureCheckResponse(studentIdNumber, 200, TRUE,
                        isEligibleToday,
                        IF isEligibleToday = "true" THEN "Eligible for meal."
                        ELSE "Not scheduled for eligibility on", currentDay,
                        profilePictureUrl(outcome))
                  /\ UNCHANGED <<admins, requests, now, students, schedules, programs>>

BackfillResponse(date, code, success, createdCount, message) ==
    [op |-> "generateUnclaimedRecords", date |-> date, status |-> code,
     success |-> success, createdCount |-> createdCount, message |-> message]

\* MealRecord.find({ dateChecked: { $gte, $lte } }).distinct('student')
\* Variant of StudentsWithRecords that looks only for CLAIMED records.
StudentsWithRecords_ClaimedOnly(startDate, endDate) ==
    {mealRecords[i].student : i \in {j \in DOMAIN mealRecords :
        /\ DateLeq(startDate, mealRecords[j].dateChecked)
        /\ DateLeq(mealRecords[j].dateChecked, endDate)
        /\ mealRecords[j].status = "CLAIMED"}}

StudentsWithRecords(startDate, endDate) ==
    {mealRecords[i].student : i \in {j \in DOMAIN mealRecords :
        /\ DateLeq(startDate, mealRecords[j].dateChecked)
        /\ DateLeq(mealRecords[j].dateChecked, endDate)}}

\* Student.find({ $or: eligibilityCriteria }) for the rows eligible on dayOfWeek.
AllEligibleStudents(dayOfWeek) ==
    SelectSeq(students, LAMBDA st:
        \E row \in schedules : /\ row.dayOfWeek = dayOfWeek
                               /\ row.isEligible
                               /\ row.program = st.program
                               /\ row.yearLevel = st.yearLevel)

EligibleSchedules(dayOfWeek) ==
    {row \in schedules : row.dayOfWeek = dayOfWeek /\ row.isEligible}

\* recordsToInsert: one ELIGIBLE_BUT_NOT_CLAIMED record per student, dated startDate.
RecordsToInsert(studentsToMark, startDate) ==
    [k \in 1..Len(studentsToMark) |->
        MealRecord(studentsToMark[k]._id, studentsToMark[k].studentIdNumber,
                   studentsToMark[k].program, studentsToMark[k].yearLevel,
                   startDate, "ELIGIBLE_BUT_NOT_CLAIMED")]

\* The outcome of the handler on the current collections: the response and the
\* documents insertMany adds.  id.toString() on a null student reference throws
\* a TypeError, which the error handler reports with status 500.
generateUnclaimedRecordsResult(date) ==
    IF ~Truthy(date)
    THEN [inserted |-> <<>>, response |-> BackfillResponse(date, 400, FALSE, -1,
            "A specific date (YYYY-MM-DD) is required in the request body.")]
    ELSE
    LET targetDate == NewDate(date) IN
    IF ~targetDate.valid
    THEN [inserted |-> <<>>, response |-> BackfillResponse(date, 400, FALSE, -1,
            "Invalid date format. Please use YYYY-MM-DD.")]
    ELSE
    LET startDate  == setUTCHours(targetDate, 0)
        endDate    == setUTCHours(targetDate, EndOfDayMs)
        dayOfWeek  == WeekdayName(startDate)
        withRecord == StudentsWithRecords(startDate, endDate)
        toMark     == SelectSeq(AllEligibleStudents(dayOfWeek),
                                LAMBDA st: st._id \notin withRecord)
    IN  IF EligibleSchedules(dayOfWeek) = {}
        THEN [inserted |-> <<>>, response |-> BackfillResponse(date, 200, TRUE, 0,
                "No programs were scheduled as eligible. No records generated.")]
        ELSE IF Null \in withRecord
        THEN [inserted |-> <<>>, response |-> BackfillResponse(date, 500, FALSE, -1,
                "TypeError: Cannot read properties of null (reading 'toString')")]
        ELSE IF toMark = <<>>
        THEN [inserted |-> <<>>, response |-> BackfillResponse(date, 200, TRUE, 0,
                "All eligible students for the specified date have been accounted for.")]
        ELSE [inserted |-> RecordsToInsert(toMark, startDate),
              response |-> BackfillResponse(date, 201, TRUE, Len(toMark),
                "Successfully generated 'unclaimed' meal records.")]

(***************************************************************************)
(* Student administration (studentController.js)                           *)
(***************************************************************************)
\* The ObjectId strings requests carry: those of stored or storable documents;
\* any other string ("xyz") is not a valid ObjectId.
ObjectIds == {"o1", "o2", "o3", "o4", "o5", "o9"}

\* mongoose.Types.ObjectId.isValid(id)
ObjectIdIsValid(id) == id \in ObjectIds

\* The ObjectId belongs to a stored student or is referred to by a MealRecord.
StudentIdInUse(id) ==
    \/ \E i \in DOMAIN students : students[i]._id = id
    \/ \E i \in DOMAIN mealRecords : mealRecords[i].student = id

\* The _id of a newly created Student: an ObjectId not in use.
NewStudentId == IF ~StudentIdInUse("o4") THEN "o4" ELSE "o5"

\* name.replace(/\s+/g, '').toLowerCase() + '@student.laverdad.edu.ph'
generateEmailFromName(name) ==
    CASE name = "Ana"     -> "ana@student.laverdad.edu.ph"
      [] name = "Dan Uy"  -> "danuy@student.laverdad.edu.ph"
      [] name = "Eve"     -> "eve@student.laverdad.edu.ph"
      [] OTHER            -> "@student.laverdad.edu.ph"

\* validateProgramExists: Program.findOne({ name: programName.toUpperCase() })
validateProgramExists(programName) == toUpperCase(programName) \in programs

\* Variant of StudentSaveOk without the unique indexes.
StudentSaveOk_NoUniqueIndex(student) ==
    /\ student.studentIdNumber # <<>>
    /\ student.yearLevel \in 1..4

\* Schema validation and unique indexes of Student on create and save: the
\* ID number is required, yearLevel lies in 1..4, and no other student has the
\* same ID number or email.
StudentSaveOk(student) ==
    /\ student.studentIdNumber # <<>>
    /\ student.yearLevel \in 1..4
    /\ \A i \in DOMAIN students :
            students[i]._id # student._id =>
                /\ students[i].studentIdNumber # student.studentIdNumber
                /\ students[i].email # student.email

StudentBody(studentIdNumber, name, email, program, yearLevel) ==
    [studentIdNumber |-> studentIdNumber, name |-> name, email |-> email,
     program |-> program, yearLevel |-> yearLevel]

\* A response of the student, schedule and program administration.
AdminResponse(op, code, message) == [op |-> op, status |-> code, message |-> message]

\* The result of a handler that fails: nothing stored changes.  next(new Error())
\* without res.status() is answered with status 500 by the error middleware.
StudentFailure(op, code, message) ==
    [students |-> students, response |-> AdminResponse(op, code, message)]

\* The student document addStudent creates from the request body.
NewStudent(body, email) ==
    Student(NewStudentId, trim(body.studentIdNumber), email,
            toUpperCase(body.program), body.yearLevel)

\* program.toUpperCase() === 'ACT' && parseInt(yearLevel, 10) > 2
ActYearLevelExceeded(program, yearLevel) == toUpperCase(program) = "ACT" /\ yearLevel > 2

\* addStudent once the email is known.
addStudentWithEmail(body, email) ==
    IF ~validateProgramExists(body.program)
    THEN StudentFailure("addStudent", 500, "Program does not exist.")
    ELSE IF FindStudents(trim(body.studentIdNumber)) # <<>>
    THEN StudentFailure("addStudent", 500, "Student with ID already exists.")
    ELSE IF \E i \in DOMAIN students : students[i].email = email
    THEN StudentFailure("addStudent", 500, "Student with email already exists.")
    ELSE IF ActYearLevelExceeded(body.program, body.yearLevel)
    THEN StudentFailure("addStudent", 500, "ACT program is only available for Year 1 and 2.")
    ELSE IF ~StudentSaveOk(NewStudent(body, email))
    THEN StudentFailure("addStudent", 500, "Student validation failed")
    ELSE [students |-> Append(students, NewStudent(body, email)),
          response |-> AdminResponse("addStudent", 201, "Student added successfully")]

\* POST /students.  An absent field is "" (<<>> for the ID number, 0 for yearLevel).
addStudent(body) ==
    IF body.name = "" \/ body.studentIdNumber = <<>> \/ body.program = "" \/ body.yearLevel = 0
    THEN StudentFailure("addStudent", 500,
                        "Name, Student ID, Program, and Year Level are required fields.")
    ELSE addStudentWithEmail(body, IF body.email = "" THEN generateEmailFromName(body.name)
                                   ELSE body.email)

\* The position of the student with the _id in the collection (0: none).
StudentIndex(id) ==
    IF \E i \in DOMAIN students : students[i]._id = id
    THEN CHOOSE i \in DOMAIN students : students[i]._id = id
    ELSE 0

\* if (studentIdNumber) student.studentIdNumber = studentIdNumber.trim();
UpdatedIdNumber(student, body) ==
    IF body.studentIdNumber # <<>> THEN trim(body.studentIdNumber) ELSE student.studentIdNumber

\* The fields updateStudent assigns before student.save().
UpdatedStudent(student, body) ==
    [_id |-> student._id,
     studentIdNumber |-> UpdatedIdNumber(student, body),
     email |-> IF body.email # "" THEN body.email ELSE student.email,
     program |-> IF body.program # "" THEN toUpperCase(body.program) ELSE student.program,
     yearLevel |-> IF body.yearLevel # 0 THEN body.yearLevel ELSE student.yearLevel]

\* updateStudent on the student found at position i.
updateStudentAt(i, body) ==
    IF body.email # "" /\ body.email # students[i].email
        /\ \E j \in DOMAIN students : j # i /\ students[j].email = body.email
    THEN StudentFailure("updateStudent", 500, "Email is already in use.")
    ELSE IF body.program # "" /\ ~validateProgramExists(body.program)
    THEN StudentFailure("updateStudent", 500, "Program does not exist.")
    ELSE IF ~StudentSaveOk(UpdatedStudent(students[i], body))
    THEN StudentFailure("updateStudent", 500, "Student validation failed")
    ELSE [students |-> [students EXCEPT ![i] = UpdatedStudent(students[i], body)],
          response |-> AdminResponse("updateStudent", 200, "Student updated successfully")]

\* PUT /students/:id
updateStudent(id, body) ==
    IF StudentIndex(id) = 0
    THEN StudentFailure("updateStudent", 500, "Student not found with ID")
    ELSE updateStudentAt(StudentIndex(id), body)

\* DELETE /students/:id
deleteStudent(id) ==
    IF ~ObjectIdIsValid(id)
    THEN StudentFailure("deleteStudent", 400, "Invalid student ID format")
    ELSE IF StudentIndex(id) = 0
    THEN StudentFailure("deleteStudent", 404, "Student not found with ID")
    ELSE [students |-> SelectSeq(students, LAMBDA st: st._id # id),
          response |-> AdminResponse("deleteStudent", 200, "Student deleted successfully.")]

(***************************************************************************)
(* Schedule administration (scheduleController.js, scheduleRoutes.js)      *)
(***************************************************************************)
ALLOWED_PROGRAMS_FOR_SCHEDULE == {"BSA", "BSAIS", "BSIS", "BSSW", "BAB", "ACT"}

DAYS_OF_WEEK ==
    {"Monday", "Tuesday", "Wednesday", "Thursday", "Friday", "Saturday", "Sunday"}

ScheduleRow(program, yearLevel, dayOfWeek, isEligible) ==
    [program |-> program, yearLevel |-> yearLevel, dayOfWeek |-> dayOfWeek, isEligible |-> isEligible]

\* A schedule day of a request body; isEligible is "true", "false", or another
\* word when it is not a boolean.
ScheduleDay(dayOfWeek, isEligible) == [dayOfWeek |-> dayOfWeek, isEligible |-> isEligible]

ScheduleBody(program, yearLevel, scheduleDays) ==
    [program |-> program, yearLevel |-> yearLevel, scheduleDays |-> scheduleDays]

\* scheduleValidationRules: the request passes validation.
scheduleValidationRules(body) ==
    /\ toUpperCase(body.program) \in ALLOWED_PROGRAMS_FOR_SCHEDULE
    /\ body.yearLevel \in 1..4
    /\ Len(body.scheduleDays) >= 1
    /\ \A k \in DOMAIN body.scheduleDays :
            /\ body.scheduleDays[k].dayOfWeek \in DAYS_OF_WEEK
            /\ body.scheduleDays[k].isEligible \in {"true", "false"}

\* The rows of the table with the (program, yearLevel, dayOfWeek) triple.
ScheduleRowsOf(table, program, yearLevel, dayOfWeek) ==
    {row \in table : /\ row.program = program
                     /\ row.yearLevel = yearLevel
                     /\ row.dayOfWeek = dayOfWeek}

\* Variant: the entry is inserted without looking for a row of the triple.
findOneAndUpdate_InsertOnly(table, program, yearLevel, daySchedule) ==
    table \cup {ScheduleRow(program, yearLevel, daySchedule.dayOfWeek,
                            daySchedule.isEligible = "true")}

\* Schedule.findOneAndUpdate(triple, { $set: ... }, { upsert: true }): the row
\* of the triple takes the isEligible of the request, or is inserted.
findOneAndUpdate(table, program, yearLevel, daySchedule) ==
    (table \ ScheduleRowsOf(table, program, yearLevel, daySchedule.dayOfWeek))
        \cup {ScheduleRow(program, yearLevel, daySchedule.dayOfWeek,
                          daySchedule.isEligible = "true")}

RECURSIVE UpsertScheduleDays(_, _, _, _)
\* for (const daySchedule of scheduleDays) { findOneAndUpdate(...) }
UpsertScheduleDays(table, program, yearLevel, scheduleDays) ==
    IF scheduleDays = <<>> THEN table
    ELSE UpsertScheduleDays(findOneAndUpdate(table, program, yearLevel, Head(scheduleDays)),
                            program, yearLevel, Tail(scheduleDays))

ScheduleFailure(op, code, message) ==
    [schedules |-> schedules, response |-> AdminResponse(op, code, message)]

\* POST /schedules
addScheduleEntry(body) ==
    IF ~scheduleValidationRules(body)
    THEN ScheduleFailure("addScheduleEntry", 400, "Validation failed")
    ELSE IF ~validateProgramExists(body.program)
    THEN ScheduleFailure("addScheduleEntry", 500, "Program does not exist in the database.")
    ELSE IF ActYearLevelExceeded(body.program, body.yearLevel)
    THEN ScheduleFailure("addScheduleEntry", 400,
                         "ACT program schedule is only available for Year 1 and 2.")
    ELSE [schedules |-> UpsertScheduleDays(schedules, toUpperCase(body.program),
                                           body.yearLevel, body.scheduleDays),
          response |-> AdminResponse("addScheduleEntry", 201, "Schedule entries processed.")]

\* req.params.id of a schedule request: the ObjectId of the row stored for a
\* triple, an ObjectId of no stored row (stale), or a string that is not an ObjectId.
ScheduleId(kind, program, yearLevel, dayOfWeek) ==
    [kind |-> kind, program |-> program, yearLevel |-> yearLevel, dayOfWeek |-> dayOfWeek]

\* Schedule.findById(id): the rows with the _id.
ScheduleFindById(id) ==
    IF id.kind = "row" THEN ScheduleRowsOf(schedules, id.program, id.yearLevel, id.dayOfWeek)
    ELSE {}

\* PUT /schedules/:id with req.body = { isEligible }
updateScheduleEntry(id, isEligible) ==
    IF isEligible \notin {"true", "false"}
    THEN ScheduleFailure("updateScheduleEntry", 400,
                         "isEligible field must be a boolean and is required for update")
    ELSE IF id.kind = "invalid"
    THEN ScheduleFailure("updateScheduleEntry", 400, "Invalid schedule entry ID format")
    ELSE IF ScheduleFindById(id) = {}
    THEN ScheduleFailure("updateScheduleEntry", 404, "Schedule entry not found with ID")
    ELSE [schedules |-> (schedules \ ScheduleFindById(id))
                            \cup {ScheduleRow(id.program, id.yearLevel, id.dayOfWeek,
                                              isEligible = "true")},
          response |-> AdminResponse("updateScheduleEntry", 200,
                                     "Schedule entry updated successfully")]

\* DELETE /schedules/:id
deleteScheduleEntry(id) ==
    IF id.kind = "invalid"
    THEN ScheduleFailure("deleteScheduleEntry", 400, "Invalid schedule entry ID format")
    ELSE IF ScheduleFindById(id) = {}
    THEN ScheduleFailure("deleteScheduleEntry", 404, "Schedule entry not found with ID")
    ELSE [schedules |-> schedules \ ScheduleFindById(id),
          response |-> AdminResponse("deleteScheduleEntry", 200, "Schedule entry deleted.")]

(***************************************************************************)
(* Program administration (programController.js)                           *)
(***************************************************************************)
ProgramFailure(op, code, message) ==
    [programs |-> programs, response |-> AdminResponse(op, code, message)]

\* POST /programs with req.body = { name, description }; "" is an absent field.
addProgram(name, description) ==
    IF name = "" \/ description = ""
    THEN ProgramFailure("addProgram", 400, "Validation failed")
    ELSE IF toUpperCase(name) \in programs
    THEN ProgramFailure("addProgram", 400, "Program already exists.")
    ELSE [programs |-> programs \cup {toUpperCase(name)},
          response |-> AdminResponse("addProgram", 201, "created")]

\* req.params.id of a program request: the ObjectId of the program stored
\* under a name, or (name "") a string that is not an ObjectId.
\* PUT /programs/:id with req.body = { name } ("" leaves the name alone).
updateProgram(id, name) ==
    IF id = ""
    THEN ProgramFailure("updateProgram", 400, "Invalid program ID format.")
    ELSE IF id \notin programs
    THEN ProgramFailure("updateProgram", 404, "Program not found with ID")
    ELSE IF name # "" /\ toUpperCase(name) # id /\ toUpperCase(name) \in programs
    THEN ProgramFailure("updateProgram", 500, "E11000 duplicate key error")
    ELSE [programs |-> IF name = "" THEN programs
                       ELSE (programs \ {id}) \cup {toUpperCase(name)},
          response |-> AdminResponse("updateProgram", 200, "updated")]

\* DELETE /programs/:id
deleteProgram(id) ==
    IF id = ""
    THEN ProgramFailure("deleteProgram", 400, "Invalid program ID format.")
    ELSE IF id \notin programs
    THEN ProgramFailure("deleteProgram", 404, "Program not found with ID")
    ELSE [programs |-> programs \ {id},
          response |-> AdminResponse("deleteProgram", 200, "deleted")]

(***************************************************************************)
(* Password reset (authController.js).  A password is its sequence of      *)
(* characters; a message is the sequence of the parts of its template.     *)
(***************************************************************************)
\* bcrypt.hash in the pre('save') hook: the stored password is a hash of the
\* text, never the text itself.
bcryptHash(password) == <<"$2a$10$", password>>

\* An Admin document with the fields the reset handlers read and write.
Admin(email, password, passwordResetToken, passwordResetExpires) ==
    [email |-> email, password |-> password,
     passwordResetToken |-> passwordResetToken,
     passwordResetExpires |-> passwordResetExpires]

\* Admin.findOne({ email: email.toLowerCase() }): the place of the account, 0 when none.
AdminIndex(email) ==
    IF \E k \in DOMAIN admins : admins[k].email = toLowerCase(email)
    THEN CHOOSE k \in DOMAIN admins : admins[k].email = toLowerCase(email)
    ELSE 0

AuthResponse(op, code, success, message) ==
    [op |-> op, status |-> code, success |-> success, message |-> message]

\* The result of a handler that leaves the Admin collection as it is.
AuthFailure(op, code, message) ==
    [admins |-> admins, response |-> AuthResponse(op, code, FALSE, message)]

\* Date.now() + 10 * 60 * 1000
resetCodeExpires(dateNow) ==
    MkDate(dateNow.day + (dateNow.ms + 10 * 60 * 1000) \div (EndOfDayMs + 1),
           (dateNow.ms + 10 * 60 * 1000) % (EndOfDayMs + 1))

\* admin.passwordResetToken = resetCode; admin.passwordResetExpires = resetCodeExpires; save()
WithResetCode(k, resetCode) ==
    [admins EXCEPT ![k] = Admin(admins[k].email, admins[k].password, resetCode,
                                resetCodeExpires(now))]

\* admin.passwordResetToken = undefined; admin.passwordResetExpires = undefined; save()
WithoutResetCode(k, password) ==
    [admins EXCEPT ![k] = Admin(admins[k].email, password, Null, InvalidDate)]

\* POST /auth/request-password-reset with req.body.email, the code
\* Math.random() yields and the outcome of sendEmail.
requestPasswordReset(email, resetCode, delivery) ==
    IF email = ""
    THEN AuthFailure("requestPasswordReset", 400, <<"Please provide an email address.">>)
    ELSE IF AdminIndex(email) = 0
    THEN [admins |-> admins,
          response |-> AuthResponse("requestPasswordReset", 200, TRUE,
            <<"If an account with that email exists, instructions to reset your password have been sent.">>)]
    ELSE IF delivery = "sent"
    THEN [admins |-> WithResetCode(AdminIndex(email), resetCode),
          response |-> AuthResponse("requestPasswordReset", 200, TRUE,
            <<"Password reset instructions have been sent to ",
              admins[AdminIndex(email)].email, ".">>)]
    ELSE [admins |-> WithoutResetCode(AdminIndex(email), admins[AdminIndex(email)].password),
          response |-> AuthResponse("requestPasswordReset", 500, FALSE,
            <<"Failed to send password reset email. Please try again later.">>)]

\* Variant: a stored code never counts as expired.
ResetCodeExpired_Never(admin) == FALSE

\* admin.passwordResetExpires < Date.now()
ResetCodeExpired(admin) == DateLt(admin.passwordResetExpires, now)

\* The checks of resetPasswordWithCode on the account found.
resetPasswordOf(k, resetCode, newPassword) ==
    IF admins[k].passwordResetToken = Null \/ admins[k].passwordResetToken # resetCode
    THEN AuthFailure("resetPasswordWithCode", 400, <<"Invalid or incorrect reset code.">>)
    ELSE IF ResetCodeExpired(admins[k])
    THEN [admins |-> WithoutResetCode(k, admins[k].password),
          response |-> AuthResponse("resetPasswordWithCode", 400, FALSE,
            <<"Password reset code has expired. Please request a new one.">>)]
    ELSE [admins |-> WithoutResetCode(k, bcryptHash(newPassword)),
          response |-> AuthResponse("resetPasswordWithCode", 200, TRUE,
            <<"Password has been reset successfully. You can now log in with your new password.">>)]

\* POST /auth/reset-password with req.body = {email, resetCode, newPassword}
\* ("" and <<>> stand for missing values).
resetPasswordWithCode(email, resetCode, newPassword) ==
    IF email = "" \/ resetCode = "" \/ newPassword = <<>>
    THEN AuthFailure("resetPasswordWithCode", 400,
                     <<"Please provide email, reset code, and a new password.">>)
    ELSE IF Len(newPassword) < 6
    THEN AuthFailure("resetPasswordWithCode", 400,
                     <<"Password must be at least 6 characters long.">>)
    ELSE IF AdminIndex(email) = 0
    THEN AuthFailure("resetPasswordWithCode", 400,
                     <<"Invalid email or reset code. Please try again.">>)
    ELSE resetPasswordOf(AdminIndex(email), resetCode, newPassword)

(***************************************************************************)
(* Bounds and inputs                                                       *)
(***************************************************************************)
\* Most MealRecords stored in a behaviour of Spec.
MaxRecords == 2

\* Most MealRecords stored in an initial state of SpecDash.
MaxDashRecords == 3

NoonMs == 12 * 3600 * 1000

\* Wednesday 2024-09-04, the first day of the kitchen clock.
ClockDay == DaysFromCivil(2024, 9, 4)

\* The instants at which requests arrive, in order: two on Wednesday (noon and
\* the last millisecond of the day) and the first millisecond of Thursday.
ClockInstants ==
    <<MkDate(ClockDay, NoonMs), MkDate(ClockDay, EndOfDayMs), MkDate(ClockDay + 1, 0)>>

\* Two students of cohort (BSIS, 1) and one of cohort (ACT, 2).
InitialStudents ==
    <<Student("o1", <<"1">>, "ana@student.laverdad.edu.ph", "BSIS", 1),
      Student("o2", <<"2">>, "ben@student.laverdad.edu.ph", "BSIS", 1),
      Student("o3", <<"3">>, "cy@student.laverdad.edu.ph", "ACT", 2)>>

\* The Program collection at the start: the names of the stored programs.
InitialPrograms == {"BSIS", "ACT"}

\* The eligibility settings each (program, yearLevel, dayOfWeek) triple takes
\* in an initial Schedule table: a row with isEligible true or false, or no row.
ScheduleSettings ==
    [t \in {<<"BSIS", 1, "Wednesday">>, <<"BSIS", 1, "Thursday">>, <<"ACT", 2, "Wednesday">>} |->
        IF t = <<"BSIS", 1, "Wednesday">> THEN {"absent", "true", "false"} ELSE {"absent", "true"}]

\* The initial Schedule tables: at most one row per triple (the unique index
\* on program, yearLevel, dayOfWeek).
ScheduleTables ==
    {{ScheduleRow(t[1], t[2], t[3], f[t] = "true") : t \in {u \in DOMAIN f : f[u] # "absent"}} :
        f \in {g \in [DOMAIN ScheduleSettings -> {"absent", "true", "false"}] :
                    \A t \in DOMAIN g : g[t] \in ScheduleSettings[t]}}

\* req.params.studentIdNumber: known IDs (one padded with blanks), an unknown ID
\* (padded), and a blank ID.
IdInputs == {<<"1">>, <<" ", "2", " ">>, <<"3">>, <<" ", "9", " ">>, <<" ">>}

\* req.body.date of the backfill: missing, unparseable, Wednesday (date only and
\* with a time of day), Thursday.
BackfillDateInputs ==
    {NoValue, WordValue("garbage"), YmdValue(2024, 9, 4), IsoValue(2024, 9, 4, EndOfDayMs),
     YmdValue(2024, 9, 5)}

NoResponse == [op |-> "none"]

\* The administrator accounts: one account, with no reset code stored.
InitialAdmins ==
    <<Admin("admin@laverdad.edu.ph", bcryptHash(<<"o", "l", "d", "p", "w", "d">>),
            Null, InvalidDate)>>

\* No request is being handled.
NoRequests == <<>>

(***************************************************************************)
(* Actions                                                                 *)
(***************************************************************************)
CheckStudentEligibility ==
    \E studentIdNumber \in IdInputs :
        /\ checkStudentEligibility(studentIdNumber)
        /\ Len(mealRecords') <= MaxRecords

CheckStudentEligibilityWithPicture ==
    \E studentIdNumber \in IdInputs, outcome \in LookupOutcomes :
        /\ checkStudentEligibilityWithPicture(studentIdNumber, outcome)
        /\ Len(mealRecords') <= MaxRecords

\* Variant of insertMany in which the inserted documents replace the stored ones.
insertMany_Replacing(docs) == docs

\* MealRecord.insertMany(recordsToInsert): the documents are added to the collection.
insertMany(docs) == mealRecords \o docs

GenerateUnclaimedRecords ==
    \E date \in BackfillDateInputs :
        LET result == generateUnclaimedRecordsResult(date) IN
        /\ Len(mealRecords) + Len(result.inserted) <= MaxRecords
        /\ mealRecords' = insertMany(result.inserted)
        /\ response' = result.response
        /\ UNCHANGED <<admins, requests, now, students, schedules, programs>>

\* Time passes: the clock moves to the next instant.
Tick ==
    \E k \in 1..(Len(ClockInstants) - 1) :
        /\ now = ClockInstants[k]
        /\ now' = ClockInstants[k + 1]
        /\ UNCHANGED <<admins, requests, students, schedules, programs, mealRecords, response>>

Init ==
    /\ now = ClockInstants[1]
    /\ students = InitialStudents
    /\ schedules \in ScheduleTables
    /\ mealRecords = <<>>
    /\ programs = InitialPrograms
    /\ response = NoResponse
    /\ admins = InitialAdmins
    /\ requests = NoRequests

Next == CheckStudentEligibility \/ GenerateUnclaimedRecords \/ Tick

Spec == Init /\ [][Next]_vars

(***************************************************************************)
(* The administration of students, schedules and programs, together with   *)
(* the eligibility check and the backfill                                  *)
(***************************************************************************)
\* Most requests that change a collection in a behaviour of SpecAdmin: the
\* meal records stored plus the administration requests handled.
MaxAdminRequests == 3

AdminBudgetLeft == Len(mealRecords) + (now.ms - NoonMs) < MaxAdminRequests

\* An administration request is handled: it takes one millisecond of the clock.
AdminRequestHandled ==
    /\ AdminBudgetLeft
    /\ now' = MkDate(now.day, now.ms + 1)

\* req.body of POST /students: a new second-year ACT student, a third-year
\* ACT student, a taken ID number (padded), and a missing name.
AddStudentInputs ==
    {StudentBody(<<"4">>, "Dan Uy", "", "act", 2),
     StudentBody(<<"4">>, "Dan Uy", "", "act", 3),
     StudentBody(<<" ", "1", " ">>, "Eve", "", "bsis", 1),
     StudentBody(<<"5">>, "", "", "bsis", 1)}

\* req.body of PUT /students/:id: a new program, a new year level, a new ID
\* number (free or taken).
UpdateStudentInputs ==
    {StudentBody(<<>>, "", "", "act", 0),
     StudentBody(<<>>, "", "", "", 3),
     StudentBody(<<" ", "7">>, "", "", "", 0),
     StudentBody(<<"1">>, "", "", "", 0)}

AddStudent ==
    \E body \in AddStudentInputs :
        /\ ~StudentIdInUse("o5")
        /\ AdminRequestHandled
        /\ students' = addStudent(body).students
        /\ response' = addStudent(body).response
        /\ UNCHANGED <<admins, requests, schedules, programs, mealRecords>>

UpdateStudent ==
    \E id \in {"o1", "o3", "o9"}, body \in UpdateStudentInputs :
        /\ AdminRequestHandled
        /\ students' = updateStudent(id, body).students
        /\ response' = updateStudent(id, body).response
        /\ UNCHANGED <<admins, requests, schedules, programs, mealRecords>>

DeleteStudent ==
    \E id \in {"o1", "o9", "xyz"} :
        /\ AdminRequestHandled
        /\ students' = deleteStudent(id).students
        /\ response' = deleteStudent(id).response
        /\ UNCHANGED <<admins, requests, schedules, programs, mealRecords>>

\* req.body of POST /schedules.
AddScheduleInputs ==
    {ScheduleBody("bsis", 1, <<ScheduleDay("Wednesday", "true")>>),
     ScheduleBody("bsis", 1, <<ScheduleDay("Wednesday", "false"), ScheduleDay("Thursday", "true")>>),
     ScheduleBody("act", 3, <<ScheduleDay("Wednesday", "true")>>),
     ScheduleBody("bsis", 1, <<ScheduleDay("Wednesday", "yes")>>),
     ScheduleBody("BSA", 1, <<ScheduleDay("Wednesday", "true")>>)}

\* req.params.id of PUT and DELETE /schedules/:id.
ScheduleIdInputs ==
    {ScheduleId("row", "BSIS", 1, "Wednesday"), ScheduleId("row", "BSIS", 1, "Thursday"),
     ScheduleId("invalid", "", 0, "")}

AddScheduleEntry ==
    \E body \in AddScheduleInputs :
        /\ AdminRequestHandled
        /\ schedules' = addScheduleEntry(body).schedules
        /\ response' = addScheduleEntry(body).response
        /\ UNCHANGED <<admins, requests, students, programs, mealRecords>>

UpdateScheduleEntry ==
    \E id \in ScheduleIdInputs, isEligible \in {"true", "false", "yes"} :
        /\ AdminRequestHandled
        /\ schedules' = updateScheduleEntry(id, isEligible).schedules
        /\ response' = updateScheduleEntry(id, isEligible).response
        /\ UNCHANGED <<admins, requests, students, programs, mealRecords>>

DeleteScheduleEntry ==
    \E id \in ScheduleIdInputs :
        /\ AdminRequestHandled
        /\ schedules' = deleteScheduleEntry(id).schedules
        /\ response' = deleteScheduleEntry(id).response
        /\ UNCHANGED <<admins, requests, students, programs, mealRecords>>

AddProgram ==
    \E name \in {"bscs", "act"} :
        /\ AdminRequestHandled
        /\ programs' = addProgram(name, "description").programs
        /\ response' = addProgram(name, "description").response
        /\ UNCHANGED <<admins, requests, students, schedules, mealRecords>>

UpdateProgram ==
    \E id \in {"ACT", ""}, name \in {"bsit", "bsis"} :
        /\ AdminRequestHandled
        /\ programs' = updateProgram(id, name).programs
        /\ response' = updateProgram(id, name).response
        /\ UNCHANGED <<admins, requests, students, schedules, mealRecords>>

DeleteProgram ==
    \E id \in {"ACT", "BSCS", ""} :
        /\ AdminRequestHandled
        /\ programs' = deleteProgram(id).programs
        /\ response' = deleteProgram(id).response
        /\ UNCHANGED <<admins, requests, students, schedules, mealRecords>>

\* Wednesday noon; the three initial students; (BSIS, 1) eligible on Wednesdays.
InitAdmin ==
    /\ now = MkDate(ClockDay, NoonMs)
    /\ students = InitialStudents
    /\ schedules = {ScheduleRow("BSIS", 1, "Wednesday", TRUE)}
    /\ programs = InitialPrograms
    /\ mealRecords = <<>>
    /\ response = NoResponse
    /\ admins = InitialAdmins
    /\ requests = NoRequests

NextAdmin ==
    \/ AdminBudgetLeft /\ CheckStudentEligibility
    \/ AdminBudgetLeft /\ GenerateUnclaimedRecords
    \/ AddStudent
    \/ UpdateStudent
    \/ DeleteStudent
    \/ AddScheduleEntry
    \/ UpdateScheduleEntry
    \/ DeleteScheduleEntry
    \/ AddProgram
    \/ UpdateProgram
    \/ DeleteProgram

SpecAdmin == InitAdmin /\ [][NextAdmin]_vars

(***************************************************************************)
(* The dashboard over an arbitrary stored history                          *)
(***************************************************************************)
\* Records the handlers can have written around September 2024: check-ins at
\* the last millisecond of August, of the first Sunday (the 1st) and of the
\* last Monday (the 30th) and at the start of the first Monday (the 2nd);
\* backfilled records at the start of the 2nd and of October 1st.
DashRecords ==
    {MealRecord("o1", <<"1">>, "BSIS", 1, MkDate(DaysFromCivil(2024, 8, 31), EndOfDayMs), "CLAIMED"),
     MealRecord("o1", <<"1">>, "BSIS", 1, MkDate(DaysFromCivil(2024, 9, 1), EndOfDayMs), "CLAIMED"),
     MealRecord("o1", <<"1">>, "BSIS", 1, MkDate(DaysFromCivil(2024, 9, 30), EndOfDayMs), "CLAIMED"),
     MealRecord("o3", <<"3">>, "ACT", 2, MkDate(DaysFromCivil(2024, 10, 1), 0), "ELIGIBLE_BUT_NOT_CLAIMED"),
     MealRecord("o2", <<"2">>, "BSIS", 1, MkDate(DaysFromCivil(2024, 9, 2), 0), "ELIGIBLE_BUT_NOT_CLAIMED"),
     MealRecord("o2", <<"2">>, "BSIS", 1, MkDate(DaysFromCivil(2024, 9, 2), 0), "INELIGIBLE_NOT_SCHEDULED"),
     MealRecord(Null, <<"9">>, "UNKNOWN", 0, MkDate(DaysFromCivil(2024, 9, 30), EndOfDayMs),
                "INELIGIBLE_STUDENT_NOT_FOUND")}

\* The current instant of a dashboard request: the first millisecond of
\* September 2024 (month index 8) and a noon of the following January.
DashNows ==
    {MkDate(DaysFromCivil(2024, 9, 1), 0), MkDate(DaysFromCivil(2025, 1, 15), NoonMs)}

\* req.query = {filterPeriod, value}; filterPeriod "" stands for a missing parameter.
Query(filterPeriod, value) == [filterPeriod |-> filterPeriod, value |-> value]

\* Reference dates: every weekday, Sundays, and the first and last days of
\* months and years (2024 is a leap year).
DashDates ==
    {YmdValue(2024, 9, 1), YmdValue(2024, 9, 2), YmdValue(2024, 9, 4), YmdValue(2024, 9, 30),
     YmdValue(2024, 12, 29), YmdValue(2024, 12, 31), YmdValue(2025, 1, 1), YmdValue(2025, 1, 5),
     YmdValue(2024, 2, 29), YmdValue(2024, 3, 2), YmdValue(2024, 11, 29), YmdValue(2024, 10, 3),
     IsoValue(2024, 9, 1, EndOfDayMs), IsoValue(2024, 9, 2, 0)}

\* Months starting on each of Sunday, Monday, Thursday and Saturday, ending on
\* a Sunday (2024-06) and on a Monday (2024-09), of 28, 29, 30 and 31 days.
DashMonths ==
    {YmValue(2024, 9), YmValue(2024, 2), YmValue(2024, 12), YmValue(2025, 2),
     YmValue(2024, 6), YmValue(2024, 7)}

DashQueries ==
    {Query("daily", v) : v \in {NoValue, WordValue("3rd"), YmdValue(2024, 9, 1),
                                 IsoValue(2024, 9, 30, EndOfDayMs)}}
    \cup {Query("weekly", v) : v \in DashDates \cup {NoValue, WordValue("3rd")}}
    \cup {Query("monthly", v) : v \in DashMonths \cup {NoValue, WordValue("3rd"), WordValue("ab-cd")}}
    \cup {Query("semestral", v) : v \in {NoValue, WordValue("1st"), WordValue("2nd"), WordValue("3rd")}}
    \cup {Query("Weekly", YmdValue(2024, 9, 4)), Query("yearly", NoValue), Query("", NoValue)}

GetPerformanceSummary ==
    \E query \in DashQueries :
        /\ response' = getPerformanceSummary(query.filterPeriod, query.value)
        /\ UNCHANGED <<admins, requests, now, students, schedules, programs, mealRecords>>

RECURSIVE SetToSeq(_)
\* The elements of a finite set in some order.
SetToSeq(S) ==
    IF S = {} THEN <<>>
    ELSE LET x == CHOOSE y \in S : TRUE IN <<x>> \o SetToSeq(S \ {x})

\* Stored histories of at most MaxDashRecords distinct records (the dashboard
\* does not depend on the order of the collection).
DashHistories ==
    {SetToSeq(S) : S \in {T \in SUBSET DashRecords : Cardinality(T) <= MaxDashRecords}}

InitDash ==
    /\ now \in DashNows
    /\ students = InitialStudents
    /\ schedules = {}
    /\ mealRecords \in DashHistories
    /\ programs = InitialPrograms
    /\ response = NoResponse
    /\ admins = InitialAdmins
    /\ requests = NoRequests

NextDash == GetPerformanceSummary

SpecDash == InitDash /\ [][NextDash]_vars

(***************************************************************************)
(* The program breakdown over an arbitrary stored history                  *)
(***************************************************************************)
\* The records of DashRecords and a claim of a second-year BSIS student in the
\* week of September 30th.
BreakdownRecords ==
    DashRecords \cup
    {MealRecord("o2", <<"2">>, "BSIS", 2, MkDate(DaysFromCivil(2024, 10, 2), NoonMs), "CLAIMED")}

BreakdownQuery(filterPeriod, value, program, groupBy) ==
    [filterPeriod |-> filterPeriod, value |-> value, program |-> program, groupBy |-> groupBy]

BreakdownQueries ==
    {BreakdownQuery(q.filterPeriod, q.value, program, groupBy) :
        q \in {Query("weekly", YmdValue(2024, 9, 30)), Query("monthly", YmValue(2024, 9)),
               Query("Daily", YmdValue(2024, 9, 2))},
        program \in {"", "bsis", "ACT", "BSCS"},
        groupBy \in {"", "yearLevel"}}
    \cup {BreakdownQuery(q.filterPeriod, q.value, "", "") :
            q \in {Query("", NoValue), Query("yearly", NoValue), Query("weekly", WordValue("3rd")),
                   Query("monthly", NoValue), Query("semestral", NoValue),
                   Query("semestral", WordValue("1st")), Query("semestral", WordValue("3rd"))}}

GetProgramBreakdown ==
    \E query \in BreakdownQueries :
        /\ response' = getProgramBreakdown(query)
        /\ UNCHANGED <<admins, requests, now, students, schedules, programs, mealRecords>>

BreakdownHistories ==
    {SetToSeq(S) : S \in {T \in SUBSET BreakdownRecords : Cardinality(T) <= MaxDashRecords}}

InitBreakdown ==
    /\ now \in DashNows
    /\ students = InitialStudents
    /\ schedules = {}
    /\ mealRecords \in BreakdownHistories
    /\ programs = InitialPrograms
    /\ response = NoResponse
    /\ admins = InitialAdmins
    /\ requests = NoRequests

NextBreakdown == GetProgramBreakdown

SpecBreakdown == InitBreakdown /\ [][NextBreakdown]_vars

(***************************************************************************)
(* The kitchen and dashboard requests together, over a growing history     *)
(***************************************************************************)
\* req.query of GET /dashboard/performance-summary: without a filterPeriod
\* (with and without a value), and a complete daily query.
RequestSummaryQueries ==
    {Query("", NoValue), Query("", YmdValue(2024, 9, 4)), Query("daily", YmdValue(2024, 9, 4))}

\* req.query of GET /dashboard/program-breakdown, likewise.
RequestBreakdownQueries ==
    {BreakdownQuery("", NoValue, "", ""),
     BreakdownQuery("", YmdValue(2024, 9, 4), "bsis", "yearLevel"),
     BreakdownQuery("daily", YmdValue(2024, 9, 4), "", "")}

PerformanceSummaryRequest ==
    \E query \in RequestSummaryQueries :
        /\ response' = getPerformanceSummary(query.filterPeriod, query.value)
        /\ UNCHANGED <<admins, requests, now, students, schedules, programs, mealRecords>>

ProgramBreakdownRequest ==
    \E query \in RequestBreakdownQueries :
        /\ response' = getProgramBreakdown(query)
        /\ UNCHANGED <<admins, requests, now, students, schedules, programs, mealRecords>>

InitRequests == InitAdmin

NextRequests ==
    \/ CheckStudentEligibility
    \/ CheckStudentEligibilityWithPicture
    \/ GenerateUnclaimedRecords
    \/ PerformanceSummaryRequest
    \/ ProgramBreakdownRequest

SpecRequests == InitRequests /\ [][NextRequests]_vars

(***************************************************************************)
(* The backfill when a run can stop in the middle of its batch             *)
(***************************************************************************)
\* A generateUnclaimedRecords run that stops (the process dies) while
\* MealRecord.insertMany has stored only the first k documents of the batch;
\* the caller gets no answer.
GenerateUnclaimedRecordsInterrupted ==
    \E date \in BackfillDateInputs :
        LET result == generateUnclaimedRecordsResult(date) IN
        \E k \in 0..(Len(result.inserted) - 1) :
            /\ Len(mealRecords) + k <= MaxRecords
            /\ mealRecords' = insertMany(SubSeq(result.inserted, 1, k))
            /\ response' = BackfillResponse(date, 0, FALSE, -1, "interrupted")
            /\ UNCHANGED <<admins, requests, now, students, schedules, programs>>

\* The generateUnclaimedRecords run that is the next request after an
\* interrupted one; it stores its whole batch.
GenerateUnclaimedRecordsAgain ==
    \E date \in BackfillDateInputs :
        /\ response.op = "generateUnclaimedRecords"
        /\ response.message = "interrupted"
        /\ mealRecords' = insertMany(generateUnclaimedRecordsResult(date).inserted)
        /\ response' = generateUnclaimedRecordsResult(date).response
        /\ UNCHANGED <<admins, requests, now, students, schedules, programs>>

InitInterrupted == InitAdmin

NextInterrupted ==
    \/ CheckStudentEligibility
    \/ GenerateUnclaimedRecords
    \/ GenerateUnclaimedRecordsInterrupted
    \/ GenerateUnclaimedRecordsAgain

SpecInterrupted == InitInterrupted /\ [][NextInterrupted]_vars

(***************************************************************************)
(* Password reset requests over a running clock                            *)
(***************************************************************************)
\* Most advances of the clock in a behaviour of SpecAuth.
MaxClockSteps == 2

\* The clock advances by six minutes: a code issued ten minutes ago at most
\* one step earlier is still valid, one issued two steps earlier has expired.
ClockStepMs == 6 * 60 * 1000

\* req.body.email: the account's address (also in upper case), an address
\* without an account, and a missing address.
ResetEmailInputs ==
    {"admin@laverdad.edu.ph", "Admin@LaVerdad.edu.ph", "nobody@laverdad.edu.ph", ""}

\* The six-digit codes Math.random() can yield.
ResetCodes == {"482913", "157204"}

\* req.body.newPassword: acceptable, too short, missing.
NewPasswordInputs == {<<"n", "e", "w", "p", "w", "d">>, <<"a", "b", "c">>, <<>>}

RequestPasswordReset ==
    \E email \in ResetEmailInputs, resetCode \in ResetCodes, delivery \in {"sent", "failed"} :
        /\ admins' = requestPasswordReset(email, resetCode, delivery).admins
        /\ response' = requestPasswordReset(email, resetCode, delivery).response
        /\ UNCHANGED <<requests, now, students, schedules, programs, mealRecords>>

ResetPasswordWithCode ==
    \E email \in ResetEmailInputs, resetCode \in ResetCodes \cup {""},
       newPassword \in NewPasswordInputs :
        /\ admins' = resetPasswordWithCode(email, resetCode, newPassword).admins
        /\ response' = resetPasswordWithCode(email, resetCode, newPassword).response
        /\ UNCHANGED <<requests, now, students, schedules, programs, mealRecords>>

\* Time passes between two requests.
ClockStep ==
    /\ now.ms < NoonMs + MaxClockSteps * ClockStepMs
    /\ now' = MkDate(now.day, now.ms + ClockStepMs)
    /\ UNCHANGED <<admins, requests, students, schedules, programs, mealRecords, response>>

InitAuth == InitAdmin

NextAuth == RequestPasswordReset \/ ResetPasswordWithCode \/ ClockStep

SpecAuth == InitAuth /\ [][NextAuth]_vars

(***************************************************************************)
(* Backfill requests handled concurrently: a handler gives way to other    *)
(* requests at each await on the MealRecord collection.  The Schedule and  *)
(* Student collections are not written while these requests run, so the    *)
(* two reads of them are taken together with the start of the request.     *)
(***************************************************************************)
\* Most backfill requests in flight at once.
MaxInFlight == 2

\* A request waiting for MealRecord.find(...).distinct('student').
AwaitingDistinct(date, allEligibleStudents) ==
    [date |-> date, step |-> "distinct", allEligibleStudents |-> allEligibleStudents,
     recordsToInsert |-> <<>>]

\* A request waiting for MealRecord.insertMany(recordsToInsert).
AwaitingInsertMany(request, recordsToInsert) ==
    [date |-> request.date, step |-> "insertMany",
     allEligibleStudents |-> request.allEligibleStudents,
     recordsToInsert |-> recordsToInsert]

\* The requests in flight once the one at place r has been answered.
Answered(r) == SubSeq(requests, 1, r - 1) \o SubSeq(requests, r + 1, Len(requests))

\* studentsToMark: the eligible students without a record among withRecord.
StudentsToMark(request, withRecord) ==
    SelectSeq(request.allEligibleStudents, LAMBDA st: st._id \notin withRecord)

\* The request is received: the date is validated and the eligible schedules
\* and students are read.  A request that needs no record read is answered.
BeginGenerateUnclaimedRecords ==
    \E date \in BackfillDateInputs :
        /\ Len(requests) < MaxInFlight
        /\ IF \/ ~Truthy(date)
              \/ ~NewDate(date).valid
              \/ EligibleSchedules(WeekdayName(setUTCHours(NewDate(date), 0))) = {}
           THEN /\ response' = generateUnclaimedRecordsResult(date).response
                /\ requests' = requests
           ELSE /\ requests' = Append(requests,
                        AwaitingDistinct(date,
                            AllEligibleStudents(WeekdayName(setUTCHours(NewDate(date), 0)))))
                /\ response' = response
        /\ UNCHANGED <<admins, now, students, schedules, programs, mealRecords>>

\* The distinct student references of the date arrive: the request is answered
\* when they hold a null or cover every eligible student, and otherwise goes
\* on to insert its batch.
ReadStudentsWithRecords ==
    \E r \in DOMAIN requests :
        LET request    == requests[r]
            startDate  == setUTCHours(NewDate(request.date), 0)
            withRecord == StudentsWithRecords(startDate, setUTCHours(startDate, EndOfDayMs))
        IN  /\ request.step = "distinct"
            /\ IF Null \in withRecord
               THEN /\ requests' = Answered(r)
                    /\ response' = BackfillResponse(request.date, 500, FALSE, -1,
                            "TypeError: Cannot read properties of null (reading 'toString')")
               ELSE IF StudentsToMark(request, withRecord) = <<>>
               THEN /\ requests' = Answered(r)
                    /\ response' = BackfillResponse(request.date, 200, TRUE, 0,
                            "All eligible students for the specified date have been accounted for.")
               ELSE /\ requests' = [requests EXCEPT ![r] =
                            AwaitingInsertMany(request,
                                RecordsToInsert(StudentsToMark(request, withRecord), startDate))]
                    /\ response' = response
            /\ UNCHANGED <<admins, now, students, schedules, programs, mealRecords>>

\* insertMany stores the batch and the request is answered with its size.
InsertRecords ==
    \E r \in DOMAIN requests :
        /\ requests[r].step = "insertMany"
        /\ mealRecords' = insertMany(requests[r].recordsToInsert)
        /\ response' = BackfillResponse(requests[r].date, 201, TRUE,
                            Len(requests[r].recordsToInsert),
                            "Successfully generated 'unclaimed' meal records.")
        /\ requests' = Answered(r)
        /\ UNCHANGED <<admins, now, students, schedules, programs>>

InitConcurrent == InitAdmin

NextConcurrent ==
    \/ CheckStudentEligibility
    \/ BeginGenerateUnclaimedRecords
    \/ ReadStudentsWithRecords
    \/ InsertRecords

SpecConcurrent == InitConcurrent /\ [][NextConcurrent]_vars

(***************************************************************************)
(* Properties of the dashboard (checked under SpecDash)                    *)
(***************************************************************************)
\* The instant t lies in the closed range.
InRange(t, range) ==
    /\ t.valid /\ range.startDate.valid /\ range.endDate.valid
    /\ (range.startDate.day < t.day \/ (range.startDate.day = t.day /\ range.startDate.ms <= t.ms))
    /\ (t.day < range.endDate.day \/ (t.day = range.endDate.day /\ t.ms <= range.endDate.ms))

\* The number of stored MealRecords with one of the statuses, dated in the range.
CountIn(statuses, range) ==
    Cardinality({i \in DOMAIN mealRecords :
                    /\ mealRecords[i].status \in statuses
                    /\ InRange(mealRecords[i].dateChecked, range)})

\* The last response is a performance summary for the period type.
IsSummaryFor(periodType) ==
    /\ response.op = "getPerformanceSummary"
    /\ toLowerCase(response.filterDetails.filterPeriod) = periodType

ResponseRange ==
    [startDate |-> response.filterDetails.startDate, endDate |-> response.filterDetails.endDate]

\* The bucket ranges of the last summary response.
ResponseBucketRanges ==
    SummaryBucketRanges(response.filterDetails.filterPeriod, response.filterDetails.value)

RECURSIVE SumAllotted(_)
SumAllotted(data) == IF data = <<>> THEN 0 ELSE Head(data).allotted + SumAllotted(Tail(data))

\* C6: for every parseable reference date D, the weekly range starts on a
\* Monday at 00:00:00.000 UTC, ends on the Sunday six days later at
\* 23:59:59.999 UTC, and contains D (a Sunday belongs to the week it ends).
C6_WeeklyRangeMondayToSunday ==
    (/\ IsSummaryFor("weekly")
     /\ Truthy(response.filterDetails.value)
     /\ NewDate(response.filterDetails.value).valid)
    => /\ response.status = 200
       /\ response.filterDetails.startDate.valid
       /\ response.filterDetails.endDate.valid
       /\ getUTCDay(response.filterDetails.startDate) = 1
       /\ response.filterDetails.startDate.ms = 0
       /\ response.filterDetails.endDate.day = response.filterDetails.startDate.day + 6
       /\ getUTCDay(response.filterDetails.endDate) = 0
       /\ response.filterDetails.endDate.ms = EndOfDayMs
       /\ InRange(NewDate(response.filterDetails.value), ResponseRange)

\* A weekly summary for a Sunday whose week began in the previous year.
C6_Witness ==
    /\ IsSummaryFor("weekly")
    /\ response.status = 200
    /\ Truthy(response.filterDetails.value)
    /\ getUTCDay(NewDate(response.filterDetails.value)) = 0
    /\ getUTCFullYear(response.filterDetails.startDate) <
            getUTCFullYear(response.filterDetails.endDate)
    /\ response.filterDetails.endDate.day = NewDate(response.filterDetails.value).day

\* The academic year start as the specification defines it: the current year
\* from September on, the previous year before.
CurrentAcademicYearStart ==
    IF getUTCMonth(now) >= 8 THEN getUTCFullYear(now) ELSE getUTCFullYear(now) - 1

IsSemesterDrillDown ==
    /\ IsSummaryFor("semestral")
    /\ response.filterDetails.value \in {WordValue("1st"), WordValue("2nd")}

\* C7: with academic year start 2024, the '1st' semester range is 2024-09-01
\* 00:00:00.000 through 2025-01-31 23:59:59.999 and the '2nd' is 2025-02-01
\* through 2025-07-31.
C7_SemesterBoundaries2024 ==
    (IsSemesterDrillDown /\ CurrentAcademicYearStart = 2024)
    => IF response.filterDetails.value = WordValue("1st")
       THEN /\ response.filterDetails.startDate = MkDate(DaysFromCivil(2024, 9, 1), 0)
            /\ response.filterDetails.endDate = MkDate(DaysFromCivil(2025, 1, 31), EndOfDayMs)
       ELSE /\ response.filterDetails.startDate = MkDate(DaysFromCivil(2025, 2, 1), 0)
            /\ response.filterDetails.endDate = MkDate(DaysFromCivil(2025, 7, 31), EndOfDayMs)

\* C8: for '1st' and '2nd' the academic year start depends on the current
\* instant only (current year from September on, else the year before), and
\* the range has defined start and end dates.
C8_AcademicYearFromCurrentInstant ==
    IsSemesterDrillDown
    => /\ academicYearStart(response.filterDetails.value) = CurrentAcademicYearStart
       /\ response.filterDetails.startDate.valid
       /\ response.filterDetails.endDate.valid

\* C9: the week buckets of a monthly summary partition the month: every
\* bucket range lies inside the month, every instant of the month lies in
\* exactly one bucket range, and the allotted counts of the buckets add up to
\* the number of CLAIMED and ELIGIBLE_BUT_NOT_CLAIMED records of the month.
C9_MonthlyWeeksPartitionMonth ==
    (IsSummaryFor("monthly") /\ response.status = 200)
    => LET ranges == ResponseBucketRanges IN
       /\ Len(response.data) = Len(ranges)
       /\ \A k \in DOMAIN ranges :
            /\ InRange(ranges[k].startDate, ResponseRange)
            /\ InRange(ranges[k].endDate, ResponseRange)
            /\ InRange(ranges[k].startDate, ranges[k])
       /\ \A d \in response.filterDetails.startDate.day .. response.filterDetails.endDate.day :
            \A t \in {0, NoonMs, EndOfDayMs} :
                Cardinality({k \in DOMAIN ranges : InRange(MkDate(d, t), ranges[k])}) = 1
       /\ SumAllotted(response.data) =
            CountIn({"CLAIMED", "ELIGIBLE_BUT_NOT_CLAIMED"}, ResponseRange)

\* A monthly summary of six week buckets whose first (a lone Sunday) and last
\* (a lone Monday) buckets both hold counted records, with a further counted
\* record just outside the month.
C9_Witness ==
    /\ IsSummaryFor("monthly")
    /\ response.status = 200
    /\ Len(response.data) = 6
    /\ response.data[1].allotted + response.data[6].allotted >= 1
    /\ SumAllotted(response.data) >= 1
    /\ \E i \in DOMAIN mealRecords :
            /\ mealRecords[i].status \in {"CLAIMED", "ELIGIBLE_BUT_NOT_CLAIMED"}
            /\ ~InRange(mealRecords[i].dateChecked, ResponseRange)

\* C10: in every bucket of a summary, claimed is the number of CLAIMED
\* records dated in the bucket's range, unclaimed the number of
\* ELIGIBLE_BUT_NOT_CLAIMED ones, and allotted their sum; INELIGIBLE_* records
\* count for nothing.
C10_BucketCounts ==
    (response.op = "getPerformanceSummary" /\ response.status = 200)
    => LET ranges == ResponseBucketRanges IN
       /\ Len(response.data) = Len(ranges)
       /\ \A k \in DOMAIN ranges :
            /\ response.data[k].claimed = CountIn({"CLAIMED"}, ranges[k])
            /\ response.data[k].unclaimed = CountIn({"ELIGIBLE_BUT_NOT_CLAIMED"}, ranges[k])
            /\ response.data[k].allotted =
                    response.data[k].claimed + response.data[k].unclaimed

\* A bucket that counts one claimed record at the last millisecond of its
\* range while an INELIGIBLE_* record lies in the same range.
C10_Witness ==
    /\ response.op = "getPerformanceSummary"
    /\ response.status = 200
    /\ \E k \in DOMAIN response.data :
            /\ response.data[k].claimed = 1
            /\ response.data[k].allotted = 1
            /\ CountIn({"INELIGIBLE_NOT_SCHEDULED", "INELIGIBLE_STUDENT_NOT_FOUND"},
                       ResponseBucketRanges[k]) = 1
            /\ \E i \in DOMAIN mealRecords :
                    /\ mealRecords[i].status = "CLAIMED"
                    /\ mealRecords[i].dateChecked = ResponseBucketRanges[k].endDate

\* The calendar months of a semester of the academic year starting in ays:
\* September..January for '1st', February..July for '2nd'.
SemesterCalendarMonths(ays, value) ==
    IF value = WordValue("1st")
    THEN <<[yr |-> ays, m |-> 9], [yr |-> ays, m |-> 10], [yr |-> ays, m |-> 11],
           [yr |-> ays, m |-> 12], [yr |-> ays + 1, m |-> 1]>>
    ELSE <<[yr |-> ays + 1, m |-> 2], [yr |-> ays + 1, m |-> 3], [yr |-> ays + 1, m |-> 4],
           [yr |-> ays + 1, m |-> 5], [yr |-> ays + 1, m |-> 6], [yr |-> ays + 1, m |-> 7]>>

\* The calendar month ym, first instant to last millisecond.
CalendarMonth(ym) ==
    [startDate |-> MkDate(DaysFromCivil(ym.yr, ym.m, 1), 0),
     endDate   |-> MkDate(DaysFromCivil(IF ym.m = 12 THEN ym.yr + 1 ELSE ym.yr,
                                        IF ym.m = 12 THEN 1 ELSE ym.m + 1, 1) - 1, EndOfDayMs)]

\* The bucket holds the counts of the records dated in the range.
BucketCovers(bucket, range) ==
    /\ bucket.claimed = CountIn({"CLAIMED"}, range)
    /\ bucket.unclaimed = CountIn({"ELIGIBLE_BUT_NOT_CLAIMED"}, range)
    /\ bucket.allotted = bucket.claimed + bucket.unclaimed

\* C11: a semestral summary without a value has exactly two buckets, '1st'
\* then '2nd', covering the two semesters of the current academic year; with
\* value '1st' or '2nd' it has one bucket per calendar month of that semester
\* in chronological order (five, September..January, or six, February..July),
\* each covering exactly that month.
C11_SemestralBuckets ==
    (IsSummaryFor("semestral")
        /\ response.filterDetails.value \in {NoValue, WordValue("1st"), WordValue("2nd")})
    => /\ response.status = 200
       /\ IF response.filterDetails.value = NoValue
          THEN /\ Len(response.data) = 2
               /\ response.data[1].id = WordValue("1st")
               /\ response.data[2].id = WordValue("2nd")
               /\ BucketCovers(response.data[1],
                    [startDate |-> MkDate(DaysFromCivil(CurrentAcademicYearStart, 9, 1), 0),
                     endDate   |-> MkDate(DaysFromCivil(CurrentAcademicYearStart + 1, 1, 31),
                                          EndOfDayMs)])
               /\ BucketCovers(response.data[2],
                    [startDate |-> MkDate(DaysFromCivil(CurrentAcademicYearStart + 1, 2, 1), 0),
                     endDate   |-> MkDate(DaysFromCivil(CurrentAcademicYearStart + 1, 7, 31),
                                          EndOfDayMs)])
          ELSE \A months \in {SemesterCalendarMonths(CurrentAcademicYearStart,
                                                     response.filterDetails.value)} :
                /\ Len(response.data) = Len(months)
                /\ \A k \in DOMAIN months :
                        /\ response.data[k].id = MonthId(months[k].yr, months[k].m)
                        /\ response.data[k].name = MonthNames[months[k].m]
                        /\ BucketCovers(response.data[k], CalendarMonth(months[k]))

\* C12: a weekly summary has exactly seven buckets named Monday through
\* Sunday in that order; the i-th bucket is identified by, and counts exactly
\* the records of, the i-th UTC calendar day of the resolved week, whatever the
\* other buckets hold.
C12_WeeklySevenDayBuckets ==
    (IsSummaryFor("weekly") /\ response.status = 200)
    => /\ Len(response.data) = 7
       /\ \A k \in 1..7 :
            /\ response.data[k].name = <<"Monday", "Tuesday", "Wednesday", "Thursday",
                                         "Friday", "Saturday", "Sunday">>[k]
            /\ response.data[k].id =
                    ToISODateString(MkDate(response.filterDetails.startDate.day + k - 1, 0))
            /\ BucketCovers(response.data[k],
                    [startDate |-> MkDate(response.filterDetails.startDate.day + k - 1, 0),
                     endDate   |-> MkDate(response.filterDetails.startDate.day + k - 1,
                                          EndOfDayMs)])

\* A weekly summary of a week spanning a month boundary whose Saturday and
\* Sunday buckets (in different months) each hold one claimed record.
C12_Witness ==
    /\ IsSummaryFor("weekly")
    /\ response.status = 200
    /\ Len(response.data) = 7
    /\ getUTCMonth(response.filterDetails.startDate) # getUTCMonth(response.filterDetails.endDate)
    /\ response.data[6].claimed = 1
    /\ response.data[7].claimed = 1
    /\ response.data[1].allotted = 0

\* The value was supplied but is malformed for the period type: an
\* unparseable date for daily and weekly, anything but a YYYY-MM month for
\* monthly, anything but '1st' and '2nd' for semestral.
MalformedValue(periodType, value) ==
    /\ Truthy(value)
    /\ CASE periodType \in {"daily", "weekly"} -> ~NewDate(value).valid
         [] periodType = "monthly"   -> ~(value.kind = "ym" /\ value.m \in 1..12)
         [] periodType = "semestral" -> value \notin {WordValue("1st"), WordValue("2nd")}
         [] OTHER                    -> FALSE

\* C14: a summary request with an unrecognized period type, or with a supplied
\* value that is malformed for its period type, is answered with a validation
\* error (status 400, getPeriodRange reporting an error): no range is derived
\* from the current date in place of the malformed value.
C14_MalformedPeriodRejected ==
    (/\ response.op = "getPerformanceSummary"
     /\ response.filterDetails.filterPeriod # ""
     /\ \/ toLowerCase(response.filterDetails.filterPeriod)
                \notin {"daily", "weekly", "monthly", "semestral"}
        \/ MalformedValue(toLowerCase(response.filterDetails.filterPeriod),
                          response.filterDetails.value))
    => /\ response.status = 400
       /\ getPeriodRange(response.filterDetails.filterPeriod,
                         response.filterDetails.value).error # "null"

(***************************************************************************)
(* Properties of the program breakdown (checked under SpecBreakdown)       *)
(***************************************************************************)
\* The stored records a breakdown response counts: counted status, dated in
\* the response's range, of the requested program when one was given.
BreakdownCounted ==
    {i \in DOMAIN mealRecords :
        /\ mealRecords[i].status \in {"CLAIMED", "ELIGIBLE_BUT_NOT_CLAIMED"}
        /\ InRange(mealRecords[i].dateChecked, ResponseRange)
        /\ \/ response.filterDetails.program = ""
           \/ mealRecords[i].programAtTimeOfRecord = toUpperCase(response.filterDetails.program)}

\* The group of a record: its year level when both a program and
\* groupBy = 'yearLevel' were given, its program otherwise.
BreakdownGroupOf(i) ==
    IF response.filterDetails.program # "" /\ response.filterDetails.groupBy = "yearLevel"
    THEN YearLevelName(mealRecords[i].yearLevelAtTimeOfRecord)
    ELSE mealRecords[i].programAtTimeOfRecord

\* The position of a group name in ascending string order.
NameRank(name) == CHOOSE k \in DOMAIN SortedGroupNames : SortedGroupNames[k] = name

\* C13: a breakdown request whose period resolves answers 200 with one row
\* per group of the counted records of the range (of the given program, if
\* any), sorted by group name; claimed and unclaimed of a row count the
\* group's CLAIMED and ELIGIBLE_BUT_NOT_CLAIMED records and allotted is their sum.
C13_BreakdownRows ==
    (response.op = "getProgramBreakdown" /\ response.status # 400)
    => /\ response.status = 200
       /\ {response.data[k].name : k \in DOMAIN response.data}
            = {BreakdownGroupOf(i) : i \in BreakdownCounted}
       /\ \A k \in DOMAIN response.data :
            /\ k > 1 => NameRank(response.data[k - 1].name) < NameRank(response.data[k].name)
            /\ response.data[k].claimed =
                    Cardinality({i \in BreakdownCounted :
                                    /\ BreakdownGroupOf(i) = response.data[k].name
                                    /\ mealRecords[i].status = "CLAIMED"})
            /\ response.data[k].unclaimed =
                    Cardinality({i \in BreakdownCounted :
                                    /\ BreakdownGroupOf(i) = response.data[k].name
                                    /\ mealRecords[i].status = "ELIGIBLE_BUT_NOT_CLAIMED"})
            /\ response.data[k].allotted = response.data[k].claimed + response.data[k].unclaimed

RECURSIVE RowSums(_)
\* The sums of claimed, unclaimed and allotted over the rows of a breakdown.
RowSums(rows) ==
    IF rows = <<>> THEN [allotted |-> 0, claimed |-> 0, unclaimed |-> 0]
    ELSE [allotted  |-> Head(rows).allotted + RowSums(Tail(rows)).allotted,
          claimed   |-> Head(rows).claimed + RowSums(Tail(rows)).claimed,
          unclaimed |-> Head(rows).unclaimed + RowSums(Tail(rows)).unclaimed]

\* The rows the breakdown pipeline yields for a range, without a program
\* filter and grouped by program.
UnfilteredRows(range) ==
    BreakdownPipeline(SelectSeq(mealRecords, LAMBDA doc: BreakdownMatchStage(doc, range, "")),
                      "", "")

\* The two aggregations agree on the range.
SumsAgreeOn(range) ==
    RowSums(UnfilteredRows(range))
        = calculateSummaryForSinglePeriod(range.startDate, range.endDate)

\* The range a breakdown query resolves to.
RangeOfQuery(query) ==
    getPeriodRange(toLowerCase(query.filterPeriod),
                   effectiveValue(query.filterPeriod, query.value))

\* C29: for every range a request resolves and every stored set of records,
\* the sums of claimed, unclaimed and allotted over the rows of the program
\* breakdown (no program filter, grouped by program) equal what
\* calculateSummaryForSinglePeriod reports for the same range; so do the sums
\* over the rows of an answered breakdown request without a program.
C29_BreakdownSumsEqualSummary ==
    /\ \A query \in BreakdownQueries :
            (query.filterPeriod # "" /\ RangeOfQuery(query).error = "null")
            => SumsAgreeOn(RangeOfQuery(query))
    /\ (/\ response.op = "getProgramBreakdown"
        /\ response.status = 200
        /\ response.filterDetails.program = "")
       => RowSums(response.data)
            = calculateSummaryForSinglePeriod(response.filterDetails.startDate,
                                              response.filterDetails.endDate)

\* An answered breakdown without a program filter with two rows (ACT and
\* BSIS), counting both a claimed and an unclaimed meal.
C29_Witness ==
    /\ response.op = "getProgramBreakdown"
    /\ response.status = 200
    /\ response.filterDetails.program = ""
    /\ Len(response.data) = 2
    /\ RowSums(response.data).claimed >= 1
    /\ RowSums(response.data).unclaimed >= 1
    /\ RowSums(response.data).allotted
            = calculateSummaryForSinglePeriod(response.filterDetails.startDate,
                                              response.filterDetails.endDate).allotted

(***************************************************************************)
(* Properties of the eligibility check and the backfill (checked under     *)
(* Spec)                                                                   *)
(***************************************************************************)
\* t is s without its leading and trailing blanks.
IsTrimOf(t, s) ==
    /\ t = <<>> \/ (t[1] # " " /\ t[Len(t)] # " ")
    /\ \E i \in 0..Len(s) : \E j \in 0..(Len(s) - i) :
            /\ t = SubSeq(s, i + 1, Len(s) - j)
            /\ \A n \in 1..i : s[n] = " "
            /\ \A n \in (Len(s) - j + 1)..Len(s) : s[n] = " "

NonBlank(s) == \E n \in DOMAIN s : s[n] # " "

\* The student's cohort has a Schedule row with isEligible = true on the UTC
\* weekday of the day (a day count since 1970-01-01, a Thursday).
ScheduledEligibleOn(st, day) ==
    \E row \in schedules :
        /\ row.program = st.program
        /\ row.yearLevel = st.yearLevel
        /\ row.dayOfWeek = <<"Thursday", "Friday", "Saturday", "Sunday",
                             "Monday", "Tuesday", "Wednesday">>[(day % 7) + 1]
        /\ row.isEligible

\* Some stored record of the student, with one of the statuses, is dated on the day.
HasRecordOn(oid, day, statuses) ==
    \E i \in DOMAIN mealRecords :
        /\ mealRecords[i].student = oid
        /\ mealRecords[i].dateChecked.day = day
        /\ mealRecords[i].status \in statuses

AllStatuses ==
    {"CLAIMED", "INELIGIBLE_NOT_SCHEDULED", "INELIGIBLE_STUDENT_NOT_FOUND",
     "ELIGIBLE_BUT_NOT_CLAIMED"}

\* The records a step has added after the ones stored before.
Added == SubSeq(mealRecords', Len(mealRecords) + 1, Len(mealRecords'))

AppendsOnly ==
    /\ Len(mealRecords') >= Len(mealRecords)
    /\ SubSeq(mealRecords', 1, Len(mealRecords)) = mealRecords

\* C1: for a student scheduled eligible today, the first check of the UTC day
\* returns the eligible result and writes one CLAIMED record; a check after
\* that on the same day returns "already claimed" and writes nothing.
C1_SecondCheckWritesNothing ==
    [][\A studentIdNumber \in IdInputs : \A k \in DOMAIN students :
        (/\ IsTrimOf(students[k].studentIdNumber, studentIdNumber)
         /\ ScheduledEligibleOn(students[k], now.day)
         /\ checkStudentEligibility(studentIdNumber))
        => IF HasRecordOn(students[k]._id, now.day, {"CLAIMED"})
           THEN /\ mealRecords' = mealRecords
                /\ response'.eligibilityStatus # "true"
           ELSE /\ AppendsOnly
                /\ Len(Added) = 1
                /\ Added[1].status = "CLAIMED"
                /\ response'.eligibilityStatus = "true"]_vars

\* C2: right after a backfill for a parseable date, with nothing written
\* since, a second run for the same date inserts no record and reports
\* createdCount = 0.
C2_SecondBackfillCreatesNothing ==
    (/\ response.op = "generateUnclaimedRecords"
     /\ Truthy(response.date)
     /\ NewDate(response.date).valid)
    => LET second == generateUnclaimedRecordsResult(response.date) IN
       /\ second.inserted = <<>>
       /\ second.response.createdCount = 0

\* C3: a check of an existing student who has not claimed today writes
\* exactly one record, CLAIMED if and only if a Schedule row with isEligible =
\* true exists for the student's cohort and today's UTC weekday, otherwise
\* INELIGIBLE_NOT_SCHEDULED (no row counts like isEligible = false); the same
\* outcome is reported.
C3_ClaimedIffScheduledEligible ==
    [][\A studentIdNumber \in IdInputs : \A k \in DOMAIN students :
        (/\ IsTrimOf(students[k].studentIdNumber, studentIdNumber)
         /\ ~HasRecordOn(students[k]._id, now.day, {"CLAIMED"})
         /\ checkStudentEligibility(studentIdNumber))
        => /\ AppendsOnly
           /\ Len(Added) = 1
           /\ Added[1].student = students[k]._id
           /\ Added[1].dateChecked = now
           /\ Added[1].status = IF ScheduledEligibleOn(students[k], now.day)
                                THEN "CLAIMED" ELSE "INELIGIBLE_NOT_SCHEDULED"
           /\ response'.status = 200
           /\ (response'.eligibilityStatus = "true") = ScheduledEligibleOn(students[k], now.day)
           /\ (response'.reason = "Eligible for meal.") = ScheduledEligibleOn(students[k], now.day)]_vars

\* A check has just recorded INELIGIBLE_NOT_SCHEDULED for a student whose
\* cohort has no Schedule row at all for today.
C3_Witness ==
    /\ response.op = "checkStudentEligibility"
    /\ response.status = 200
    /\ response.eligibilityStatus = "null"
    /\ mealRecords # <<>>
    /\ mealRecords[Len(mealRecords)].status = "INELIGIBLE_NOT_SCHEDULED"
    /\ mealRecords[Len(mealRecords)].dateChecked = now
    /\ \E k \in DOMAIN students :
            /\ students[k]._id = mealRecords[Len(mealRecords)].student
            /\ \A row \in schedules :
                    ~(/\ row.program = students[k].program
                      /\ row.yearLevel = students[k].yearLevel
                      /\ row.dayOfWeek = response.day)

\* C4: a check with a non-blank ID that matches no student appends exactly
\* one record (student null, the trimmed ID, INELIGIBLE_STUDENT_NOT_FOUND),
\* returns not-found, and writes nothing else.
C4_UnknownStudentRecorded ==
    [][\A studentIdNumber \in IdInputs :
        (/\ NonBlank(studentIdNumber)
         /\ \A k \in DOMAIN students : ~IsTrimOf(students[k].studentIdNumber, studentIdNumber)
         /\ checkStudentEligibility(studentIdNumber))
        => /\ AppendsOnly
           /\ Len(Added) = 1
           /\ Added[1].student = Null
           /\ IsTrimOf(Added[1].studentIdNumber, studentIdNumber)
           /\ Added[1].status = "INELIGIBLE_STUDENT_NOT_FOUND"
           /\ Added[1].dateChecked = now
           /\ response'.status = 404
           /\ ~response'.success
           /\ UNCHANGED <<students, schedules, programs>>]_vars

\* A not-found result for an ID sent with surrounding blanks, recorded trimmed.
C4_Witness ==
    /\ response.op = "checkStudentEligibility"
    /\ response.status = 404
    /\ response.studentIdNumber = <<" ", "9", " ">>
    /\ mealRecords # <<>>
    /\ mealRecords[Len(mealRecords)].student = Null
    /\ mealRecords[Len(mealRecords)].studentIdNumber = <<"9">>
    /\ mealRecords[Len(mealRecords)].status = "INELIGIBLE_STUDENT_NOT_FOUND"

\* A step of the backfill handler for the date.
BackfillStep(date) ==
    LET result == generateUnclaimedRecordsResult(date) IN
    /\ mealRecords' = mealRecords \o result.inserted
    /\ response' = result.response
    /\ UNCHANGED <<now, students, schedules, programs>>

\* The students the backfill owes a record for the day: cohort scheduled
\* eligible on the day's weekday, and no record of any status on the day.
OwedUnclaimed(day) ==
    {k \in DOMAIN students :
        /\ ScheduledEligibleOn(students[k], day)
        /\ ~HasRecordOn(students[k]._id, day, AllStatuses)}

\* C5: a backfill for a parseable date inserts exactly one
\* ELIGIBLE_BUT_NOT_CLAIMED record, dated 00:00:00.000 UTC of the date, for
\* each student of an eligible cohort without any record on that day, nothing
\* else, and reports success with createdCount = the number inserted (0 when
\* no cohort is eligible).
C5_BackfillInsertsOnePerOwedStudent ==
    [][\A date \in BackfillDateInputs :
        (Truthy(date) /\ NewDate(date).valid /\ BackfillStep(date))
        => LET day == NewDate(date).day IN
           /\ AppendsOnly
           /\ Len(Added) = Cardinality(OwedUnclaimed(day))
           /\ \A k \in OwedUnclaimed(day) :
                \E n \in DOMAIN Added : Added[n].student = students[k]._id
           /\ \A n \in DOMAIN Added :
                /\ Added[n].status = "ELIGIBLE_BUT_NOT_CLAIMED"
                /\ Added[n].dateChecked = MkDate(day, 0)
           /\ response'.success
           /\ response'.createdCount = Len(Added)]_vars

(***************************************************************************)
(* Properties of the kitchen and dashboard requests together (checked      *)
(* under SpecRequests)                                                     *)
(***************************************************************************)
\* A date that is absent, empty, or text that is no date.
MissingOrUnparseableDate(date) == date.kind \in {"none", "word"}

RejectedUnchanged ==
    /\ response'.status = 400
    /\ UNCHANGED <<students, schedules, mealRecords>>

\* C15: a check with a blank student ID, a backfill with a missing or
\* unparseable date, and a performance summary or a program breakdown without
\* a filterPeriod are each answered with an error (400) and leave the
\* students, the schedules and the meal records as they were.
C15_MalformedInputsRejected ==
    [][/\ (response'.op = "checkStudentEligibility" /\ ~NonBlank(response'.studentIdNumber))
            => RejectedUnchanged
       /\ (response'.op = "generateUnclaimedRecords" /\ MissingOrUnparseableDate(response'.date))
            => RejectedUnchanged
       /\ (response'.op = "getPerformanceSummary" /\ response'.filterDetails.filterPeriod = "")
            => RejectedUnchanged
       /\ (response'.op = "getProgramBreakdown" /\ response'.filterDetails.filterPeriod = "")
            => RejectedUnchanged]_vars

\* An unparseable backfill date was rejected while meal records are stored.
C15_Witness ==
    /\ response.op = "generateUnclaimedRecords"
    /\ response.date = WordValue("garbage")
    /\ response.status = 400
    /\ mealRecords # <<>>

(***************************************************************************)
(* Properties of the administration together with the eligibility check    *)
(* and the backfill (checked under SpecAdmin)                              *)
(***************************************************************************)
\* C16: meal records are append-only.  In every step of every request handler
\* (eligibility check, backfill, and the creation, update and deletion of
\* students, schedule rows and programs) each meal record stored before the
\* step is stored after it, at the same place and with every field unchanged.
C16_MealRecordsAppendOnly == [][AppendsOnly]_vars

\* A student was deleted while meal records are stored.
C16_Witness ==
    /\ response.op = "deleteStudent"
    /\ response.status = 200
    /\ mealRecords # <<>>

\* The stored student with the _id has the program and the year level.
StudentHas(id, program, yearLevel) ==
    \E i \in DOMAIN students :
        /\ students[i]._id = id
        /\ students[i].program = program
        /\ students[i].yearLevel = yearLevel

\* C17: every meal record written for an existing student carries the
\* program and the year level the student has at the moment of the write, and
\* an updateStudent or a deleteStudent leaves the programAtTimeOfRecord and
\* the yearLevelAtTimeOfRecord of every stored meal record unchanged.
C17_SnapshotAtWrite ==
    [][/\ \A n \in DOMAIN Added :
            Added[n].student # Null =>
                StudentHas(Added[n].student, Added[n].programAtTimeOfRecord,
                           Added[n].yearLevelAtTimeOfRecord)
       /\ response'.op \in {"updateStudent", "deleteStudent"} =>
            /\ Len(mealRecords') = Len(mealRecords)
            /\ \A i \in DOMAIN mealRecords :
                /\ mealRecords'[i].programAtTimeOfRecord = mealRecords[i].programAtTimeOfRecord
                /\ mealRecords'[i].yearLevelAtTimeOfRecord = mealRecords[i].yearLevelAtTimeOfRecord]_vars

\* A meal record keeps the program its student had when it was written,
\* after updateStudent moved the student to another program.
C17_Witness ==
    /\ response.op = "updateStudent"
    /\ response.status = 200
    /\ \E i \in DOMAIN mealRecords, j \in DOMAIN students :
        /\ mealRecords[i].student = students[j]._id
        /\ mealRecords[i].programAtTimeOfRecord # students[j].program

\* A request body of addScheduleEntry that is acceptable but for the rows
\* already stored: a program that is stored and allowed, a year level within
\* 1..4 (1..2 for ACT), days of the week and boolean isEligible values.
AcceptableScheduleBody(body) ==
    /\ toUpperCase(body.program) \in programs \cap ALLOWED_PROGRAMS_FOR_SCHEDULE
    /\ body.yearLevel \in 1..4
    /\ toUpperCase(body.program) = "ACT" => body.yearLevel <= 2
    /\ body.scheduleDays # <<>>
    /\ \A k \in DOMAIN body.scheduleDays :
            /\ \E d \in DOMAIN DayNames : DayNames[d] = body.scheduleDays[k].dayOfWeek
            /\ body.scheduleDays[k].isEligible \in {"true", "false"}

\* The rows of a table with the triple of the k-th day of the body.
RowsOfDay(table, body, k) ==
    {row \in table : /\ row.program = toUpperCase(body.program)
                     /\ row.yearLevel = body.yearLevel
                     /\ row.dayOfWeek = body.scheduleDays[k].dayOfWeek}

C19_ActYearLevelLimit ==
    /\ \A i \in DOMAIN students :
            /\ students[i].yearLevel \in 1..4
            /\ students[i].program = "ACT" => students[i].yearLevel <= 2
    /\ \A row \in schedules :
            /\ row.yearLevel \in 1..4
            /\ row.program = "ACT" => row.yearLevel <= 2

\* C20: the studentIdNumber of a student is immutable: in every step, each
\* student that is stored before and after the step has the same
\* studentIdNumber before and after.
C20_StudentIdNumberImmutable ==
    [][\A i \in DOMAIN students, j \in DOMAIN students' :
            students'[j]._id = students[i]._id =>
                students'[j].studentIdNumber = students[i].studentIdNumber]_vars

\* Another stored student than the one with the _id holds the ID number.
HeldByAnother(id, studentIdNumber) ==
    \E i \in DOMAIN students :
        /\ students[i]._id # id
        /\ students[i].studentIdNumber = studentIdNumber

C22_LookupNeverFailsCheck ==
    [][\A studentIdNumber \in IdInputs, outcome \in LookupOutcomes :
        (/\ FindStudents(trim(studentIdNumber)) # <<>>
         /\ checkStudentEligibilityWithPicture(studentIdNumber, outcome))
        => /\ AppendsOnly
           /\ Len(Added) = 1
           /\ Added[1].student = FindStudents(trim(studentIdNumber))[1]._id
           /\ Added[1].status =
                IF ScheduledEligibleOn(FindStudents(trim(studentIdNumber))[1], now.day)
                THEN "CLAIMED" ELSE "INELIGIBLE_NOT_SCHEDULED"
           /\ response'.status = 200
           /\ response'.success
           /\ outcome # "photo" => response'.profilePictureUrl = "/person-placeholder.jpg"]_vars

\* A check of a stored student answered with the placeholder picture.
C22_Witness ==
    /\ response.op = "checkStudentEligibility"
    /\ response.status = 200
    /\ "profilePictureUrl" \in DOMAIN response
    /\ response.profilePictureUrl = "/person-placeholder.jpg"
    /\ mealRecords # <<>>

RecordsAfter(oid, day, statuses) ==
    {i \in DOMAIN mealRecords' :
        /\ mealRecords'[i].student = oid
        /\ mealRecords'[i].dateChecked.day = day
        /\ mealRecords'[i].status \in statuses}

\* C24: when a backfill for a date stopped after inserting part of its batch
\* and the next request is a complete backfill for the same date, that run
\* succeeds, inserts ELIGIBLE_BUT_NOT_CLAIMED records only for students who
\* had no record on the date, and afterwards every eligible student with no
\* other record on the date has exactly one ELIGIBLE_BUT_NOT_CLAIMED record
\* for it.
C24_RerunCompletesPartialBatch ==
    [][\A date \in BackfillDateInputs :
        (/\ response.op = "generateUnclaimedRecords"
         /\ response.message = "interrupted"
         /\ NewDate(response.date).day = NewDate(date).day
         /\ BackfillStep(date))
        => /\ AppendsOnly
           /\ response'.success
           /\ response'.createdCount = Len(Added)
           /\ \A n \in DOMAIN Added :
                /\ Added[n].status = "ELIGIBLE_BUT_NOT_CLAIMED"
                /\ ~HasRecordOn(Added[n].student, NewDate(date).day, AllStatuses)
           /\ \A k \in DOMAIN students :
                (/\ ScheduledEligibleOn(students[k], NewDate(date).day)
                 /\ RecordsAfter(students[k]._id, NewDate(date).day,
                                 AllStatuses \ {"ELIGIBLE_BUT_NOT_CLAIMED"}) = {})
                => Cardinality(RecordsAfter(students[k]._id, NewDate(date).day,
                                            {"ELIGIBLE_BUT_NOT_CLAIMED"})) = 1]_vars

\* A complete run inserted the one record an interrupted run had left out:
\* both eligible students have their ELIGIBLE_BUT_NOT_CLAIMED record.
C24_Witness ==
    /\ response.op = "generateUnclaimedRecords"
    /\ response.status = 201
    /\ response.createdCount = 1
    /\ Len(mealRecords) = 2
    /\ \A i \in DOMAIN mealRecords : mealRecords[i].status = "ELIGIBLE_BUT_NOT_CLAIMED"
    /\ mealRecords[1].student # mealRecords[2].student

(***************************************************************************)
(* Properties of check-in and backfill together (checked under Spec)       *)
(***************************************************************************)
\* C26: after any sequence of checks and backfills, no student has both a
\* CLAIMED and an ELIGIBLE_BUT_NOT_CLAIMED record within one UTC day.
C26_NoClaimedAndUnclaimedSameDay ==
    \A i, j \in DOMAIN mealRecords :
        (/\ mealRecords[i].student # Null
         /\ mealRecords[i].student = mealRecords[j].student
         /\ mealRecords[i].dateChecked.day = mealRecords[j].dateChecked.day
         /\ mealRecords[i].status = "ELIGIBLE_BUT_NOT_CLAIMED")
        => mealRecords[j].status # "CLAIMED"

\* C27: a backfill for a parseable date completes with a createdCount result
\* whatever records the date already holds, records with a null student
\* reference included.
C27_BackfillNeverFailsOnStoredRecords ==
    [][\A date \in BackfillDateInputs :
        (Truthy(date) /\ NewDate(date).valid /\ BackfillStep(date))
        => /\ response'.success
           /\ response'.status \in {200, 201}
           /\ response'.createdCount >= 0]_vars

(***************************************************************************)
(* Properties of the password reset (checked under SpecAuth)               *)
(***************************************************************************)
\* C25: with email delivery succeeding, requestPasswordReset answers an
\* address that has an account and one that has none with the same status
\* and body, so the response does not reveal whether the address is registered.
C25_ResetResponseHidesRegistration ==
    \A email1, email2 \in ResetEmailInputs \ {""} : \A resetCode \in ResetCodes :
        requestPasswordReset(email1, resetCode, "sent").response
            = requestPasswordReset(email2, resetCode, "sent").response

\* The step is the handling of the reset request with this body.
ResetStep(email, resetCode, newPassword) ==
    /\ admins' = resetPasswordWithCode(email, resetCode, newPassword).admins
    /\ response' = resetPasswordWithCode(email, resetCode, newPassword).response

\* C30: a reset code is single-use and time-limited.  A step changes an
\* account's password only as a reset request whose code equals the stored
\* code, before the code's expiry; a reset request with a well-formed body and
\* the stored code, accepted or refused as expired, clears the stored code;
\* while no code is stored every reset request is refused and changes
\* nothing; and only requestPasswordReset stores a code.
C30_ResetCodeSingleUseTimeLimited ==
    [][\A k \in DOMAIN admins :
        /\ admins'[k].password # admins[k].password
           => /\ response'.op = "resetPasswordWithCode"
              /\ response'.status = 200
              /\ admins[k].passwordResetToken # Null
              /\ admins[k].passwordResetExpires.valid
              /\ ~DateLt(admins[k].passwordResetExpires, now)
              /\ admins'[k].passwordResetToken = Null
              /\ \A email \in ResetEmailInputs, resetCode \in ResetCodes \cup {""},
                    newPassword \in NewPasswordInputs :
                    ResetStep(email, resetCode, newPassword)
                    => /\ resetCode = admins[k].passwordResetToken
                       /\ admins'[k].password = bcryptHash(newPassword)
        /\ \A email \in ResetEmailInputs, resetCode \in ResetCodes,
              newPassword \in NewPasswordInputs :
              (/\ ResetStep(email, resetCode, newPassword)
               /\ response'.op = "resetPasswordWithCode"
               /\ toLowerCase(email) = admins[k].email
               /\ Len(newPassword) >= 6
               /\ resetCode = admins[k].passwordResetToken)
              => /\ admins'[k].passwordResetToken = Null
                 /\ response'.status = 200 <=> ~DateLt(admins[k].passwordResetExpires, now)
        /\ admins[k].passwordResetToken = Null
           => \A resetCode \in ResetCodes \cup {""}, newPassword \in NewPasswordInputs :
                /\ resetPasswordWithCode(admins[k].email, resetCode, newPassword).admins = admins
                /\ resetPasswordWithCode(admins[k].email, resetCode, newPassword).response.status
                        = 400
        /\ (admins'[k].passwordResetToken # Null
            /\ admins'[k].passwordResetToken # admins[k].passwordResetToken)
           => response'.op = "requestPasswordReset"]_vars

\* The password was reset, the code is cleared, and a further reset request
\* has been refused.
C30_Witness ==
    /\ admins[1].password = bcryptHash(<<"n", "e", "w", "p", "w", "d">>)
    /\ admins[1].passwordResetToken = Null
    /\ response.op = "resetPasswordWithCode"
    /\ response.status = 400
    /\ response.message = <<"Invalid or incorrect reset code.">>

(***************************************************************************)
(* Properties of concurrent backfills (checked under SpecConcurrent)       *)
(***************************************************************************)
\* C28: however two backfill requests for one date interleave, no student
\* ends with two ELIGIBLE_BUT_NOT_CLAIMED records for that date.
C28_ConcurrentBackfillsNoDuplicate ==
    \A i, j \in DOMAIN mealRecords :
        (/\ i < j
         /\ mealRecords[i].student = mealRecords[j].student
         /\ mealRecords[i].dateChecked.day = mealRecords[j].dateChecked.day
         /\ mealRecords[i].status = "ELIGIBLE_BUT_NOT_CLAIMED")
        => mealRecords[j].status # "ELIGIBLE_BUT_NOT_CLAIMED"

====
